---- MODULE Spec2Model ----
(***************************************************************************)
(* rustorio engine: the logical clock (Tick), the generic Machine with its *)
(* lazy, batched sync (Machine::tick), the buffer handles returned by      *)
(* inputs()/outputs(), and change_recipe; the run-once guard of play();    *)
(* Resource and RecipeItem; the Territory with its miners.                 *)
(***************************************************************************)
EXTENDS Integers, Sequences, FiniteSets, TLC

\* ------------------------------------------------------------------ bounds
\* The clock is not advanced past MaxTick.
MaxTick == 4
\* Largest step of one advance_by call.
MaxAdvance == 3
\* Insertions keep the total amount held by the machine at or below MaxAmount.
MaxAmount == 4

\* ----------------------------------------------------------------- recipes
\* The ticks one research point takes and the points a technology costs, of
\* both technologies alike (scaled down from 50 ticks and 10 points).
PointRecipeTime == 1
ResearchPointCost == 2

\* The ticks one smelting takes (scaled down from the 6 of IronSmelting).
FurnaceTime == 2

\* One (per-cycle amount, resource type) pair of a recipe.
Item(name, needed) == [name |-> name, needed |-> needed]

\* The resolved recipe tables the engine is instantiated with:
\* TIME, the input items and the output items, in declared order.
Recipes ==
    << [TIME |-> 1, inputs |-> << Item("Copper", 1) >>,
                    outputs |-> << Item("CopperWire", 2) >>],
       [TIME |-> 3, inputs |-> << Item("Iron", 1), Item("CopperWire", 2) >>,
                    outputs |-> << Item("ElectronicCircuit", 1) >>],
       [TIME |-> 0, inputs |-> << Item("Resource1", 2) >>,
                    outputs |-> << Item("Resource4", 1), Item("Resource5", 1) >>],
       [TIME |-> 2, inputs |-> << >>,
                    outputs |-> << Item("Point", 1) >>],
       [TIME |-> 10, inputs |-> << Item("A", 2) >>,
                     outputs |-> << Item("B", 1) >>],
       [TIME |-> PointRecipeTime, inputs |-> << Item("RedScience", 1) >>,
                     outputs |-> << Item("Points", 1) >>],
       [TIME |-> PointRecipeTime, inputs |-> << Item("RedScience", 1) >>,
                     outputs |-> << Item("Steel", 1) >>],
       [TIME |-> 0, inputs |-> << >>,
                    outputs |-> << Item("Point", 1) >>],
       [TIME |-> FurnaceTime, inputs |-> << Item("IronOre", 1) >>,
                    outputs |-> << Item("Iron", 1) >>] >>

\* The recipes a machine is built with or changed to.
RecipeIds == 1..4

\* The recipe {cycle time 10, 2 A -> 1 B} of the worked scenarios.
ScenarioRecipe == 5

\* IronSmelting, the recipe of the furnace.
IronSmelting == 9

\* The recipes with cycle time 0: one with an input, one without.
ZeroTimeRecipeIds == { r \in DOMAIN Recipes : Recipes[r].TIME = 0 }

\* The technologies, and TechRecipe<T> of each: same inputs, same time, one
\* ResearchPoint<T> per cycle.
Technologies == { "Points", "Steel" }
tech_recipe(T) == IF T = "Points" THEN 6 ELSE 7
TechRecipeIds == { tech_recipe(T) : T \in Technologies }
TechnologyOf(r) == CHOOSE T \in Technologies : tech_recipe(T) = r

\* The resource types of the copper wire and circuit recipes, and the ore of
\* the territory.
Ore == "IronOre"
Kinds == { Ore, "Copper", "Iron", "CopperWire", "ElectronicCircuit" }

\* BufferLocation
Input == "Input"
Output == "Output"

\* ------------------------------------------------------------------- state
VARIABLES
    tick,      \* the Tick object: [tick, log]
    recipe,    \* the machine's recipe R (an index of Recipes), 0 before it is built
    machine,   \* the Machine: [inputs, outputs, tick, crafting_time]
    handle,    \* the live &mut buffers borrow: "none", Input or Output
    panicked,  \* the process has panicked
    last,      \* the last operation and what it returned
    shadow,    \* a second building beside the machine, worked tick by tick:
               \* the machine synced after every single tick, or the Furnace
    ONCE,      \* the state of the static ONCE that guards play()
    calls,     \* the calls of play(): each one's position and its call_once_ran
    harness,   \* what play() has done: clocks made, user functions invoked, the report
    resources, \* the amounts of the free-standing Resource values
    territory, \* the Territory: [mining_tick, max_miners, miners, resources]
    player,    \* what the player's function holds: technologies, points, a bundle
    twin,      \* a second run of the same operations: its clock, machine, territory
    mark       \* the machine as it stood at a tick picked to measure production from

vars == << tick, recipe, machine, handle, panicked, last, shadow,
           ONCE, calls, harness, resources, territory, player, twin, mark >>

\* The state outside the clock and the machine.
outside == << ONCE, calls, harness, resources, territory, player, twin, mark >>

\* ----------------------------------------------------------------- helpers
Min(S) == CHOOSE x \in S : \A y \in S : x <= y

SumSeq(s) ==
    LET RECURSIVE Go(_)
        Go(i) == IF i = 0 THEN 0 ELSE s[i] + Go(i - 1)
    IN  Go(Len(s))

\* Recipe::new_inputs / Recipe::new_outputs: one empty buffer per item.
new_inputs(r) == [i \in 1..Len(Recipes[r].inputs) |-> 0]
new_outputs(r) == [j \in 1..Len(Recipes[r].outputs) |-> 0]

\* Machine::new_inner
new_inner(r, t) ==
    [inputs |-> new_inputs(r), outputs |-> new_outputs(r),
     tick |-> t, crafting_time |-> 0]

\* No machine has been built yet.
NoMachine == [inputs |-> << >>, outputs |-> << >>, tick |-> 0, crafting_time |-> 0]

\* RecipeEx::iter_inputs / iter_outputs: (resource name, needed, current).
iter_inputs(m, r) ==
    [i \in 1..Len(Recipes[r].inputs) |->
        << Recipes[r].inputs[i].name, Recipes[r].inputs[i].needed, m.inputs[i] >>]
iter_outputs(m, r) ==
    [j \in 1..Len(Recipes[r].outputs) |->
        << Recipes[r].outputs[j].name, Recipes[r].outputs[j].needed, m.outputs[j] >>]

\* ------------------------------------------------------------ Machine::tick
\* Mutant: the assertion is missing, so a lower tick is not rejected.
TickAssertFails_Missing(m, cur) == FALSE

\* The assertion at the head of Machine::tick fails.
TickAssertFails(m, cur) == cur < m.tick

\* Mutant: the time carried from earlier syncs is dropped.
TickCraftingTime_Restarts(m, cur) == cur - m.tick

\* self.crafting_time += tick.cur() - self.tick
TickCraftingTime(m, cur) == m.crafting_time + (cur - m.tick)

\* The candidates of the min(): one per input, chained with the time bound
\* when R::TIME > 0.
TickCounts(m, r, cur) ==
    { iter_inputs(m, r)[i][3] \div iter_inputs(m, r)[i][2] :
        i \in { k \in 1..Len(Recipes[r].inputs) : Recipes[r].inputs[k].needed > 0 } }
    \cup (IF Recipes[r].TIME > 0
            THEN { TickCraftingTime(m, cur) \div Recipes[r].TIME }
            ELSE { })

\* The sync panics after the assertion: a division by a zero `needed`, or
\* min() of an empty iterator unwrapped.
TickUnwrapFails(m, r, cur) ==
    \/ \E i \in 1..Len(Recipes[r].inputs) : Recipes[r].inputs[i].needed = 0
    \/ TickCounts(m, r, cur) = { }

\* Mutant: only the first input bounds the count.
TickCount_FirstInputOnly(m, r, cur) ==
    Min((IF Recipes[r].TIME > 0
            THEN { TickCraftingTime(m, cur) \div Recipes[r].TIME }
            ELSE { })
        \cup (IF Len(m.inputs) > 0
                THEN { m.inputs[1] \div Recipes[r].inputs[1].needed }
                ELSE { }))

\* let count = ... .min().unwrap()
TickCount(m, r, cur) == Min(TickCounts(m, r, cur))

\* Mutant: one unit per cycle is taken from every input, whatever it needs.
TickInputs_OnePerCycle(m, r, cur) ==
    [i \in 1..Len(m.inputs) |-> m.inputs[i] - TickCount(m, r, cur)]

\* *current -= count * needed, for every input
TickInputs(m, r, cur) ==
    [i \in 1..Len(m.inputs) |->
        m.inputs[i] - TickCount(m, r, cur) * Recipes[r].inputs[i].needed]

\* Mutant: the outputs grow by one cycle's yield, however many cycles ran.
TickOutputs_OneCycle(m, r, cur) ==
    [j \in 1..Len(m.outputs) |->
        m.outputs[j] + (IF TickCount(m, r, cur) > 0
                          THEN Recipes[r].outputs[j].needed ELSE 0)]

\* *current += count * needed, for every output
TickOutputs(m, r, cur) ==
    [j \in 1..Len(m.outputs) |->
        m.outputs[j] + TickCount(m, r, cur) * Recipes[r].outputs[j].needed]

\* Mutant: the time of one cycle is taken off, however many cycles ran.
TickRemaining_OneCycle(m, r, cur) ==
    TickCraftingTime(m, cur)
        - (IF TickCount(m, r, cur) > 0 THEN Recipes[r].TIME ELSE 0)

\* Mutant: the time of the cycles run is not taken off crafting_time.
TickRemaining_NotConsumed(m, r, cur) == TickCraftingTime(m, cur)

\* self.crafting_time -= u64::from(count) * R::TIME
TickRemaining(m, r, cur) ==
    TickCraftingTime(m, cur) - TickCount(m, r, cur) * Recipes[r].TIME

\* Mutant: the forfeiture is decided on the buffers as the sync found them.
TickForfeits_PreBatch(m, r, cur) ==
    \E i \in 1..Len(m.inputs) : m.inputs[i] < Recipes[r].inputs[i].needed

\* Mutant: crafting_time is never forfeited.
TickForfeits_Never(m, r, cur) == FALSE

\* iter_inputs().any(|(_, needed, current)| *current < needed), on the
\* buffers the batch has left.
TickForfeits(m, r, cur) ==
    \E i \in 1..Len(m.inputs) :
        TickInputs(m, r, cur)[i] < Recipes[r].inputs[i].needed

\* Machine::tick, when it returns.
MachineTick(m, r, cur) ==
    [inputs |-> TickInputs(m, r, cur),
     outputs |-> TickOutputs(m, r, cur),
     crafting_time |->
        IF TickForfeits(m, r, cur) THEN 0 ELSE TickRemaining(m, r, cur),
     tick |-> cur]

\* Machine::tick, when it panics: the state it leaves behind.
MachineTickPanic(m, r, cur) ==
    IF TickAssertFails(m, cur) THEN m
    ELSE [m EXCEPT !.crafting_time = TickCraftingTime(m, cur)]

\* ------------------------------------------------------------ history record
NoError == [resource_type |-> "", amount |-> 0, location |-> ""]

\* op: the operation; delta: the ticks a sync covers; banked: the
\* crafting_time a sync or a change_recipe found; count: the cycles a sync
\* ran (the amount amount() read); resync: the operation before this sync was
\* a sync too; err: the error the operation returned.
Last(op, delta, banked, count, resync, err) ==
    [op |-> op, delta |-> delta, banked |-> banked, count |-> count,
     resync |-> resync, err |-> err]

Did(op) == Last(op, 0, 0, 0, FALSE, NoError)

\* -------------------------------------------------------------------- Init
\* The calls of play() the process makes.
MaxCalls == 2
Calls == 1..MaxCalls

\* No bundle is held.
NoBundle == [kind |-> "", AMOUNT |-> 0]

\* The player starts with every technology, unresearched, no research
\* points and empty resources (`wallet`: one Resource per resource type).
\* `bundles` are the Bundle values in hand, `produced` counts the points
\* the labs have made and `researched`
\* the calls of research(), per technology.
StartingPlayer ==
    [technologies |-> Technologies,
     points |-> [T \in Technologies |-> 0],
     bundle |-> NoBundle,
     bundles |-> << >>,
     wallet |-> [k \in Kinds |-> 0],
     produced |-> [T \in Technologies |-> 0],
     researched |-> [T \in Technologies |-> 0]]

\* No territory has been made.
NoTerritory == [mining_tick |-> 0, max_miners |-> 0, miners |-> 0, resources |-> 0]

\* No tick has been picked.
NoMark == [set |-> FALSE, tick |-> 0, machine |-> NoMachine, extracted |-> FALSE]

\* No second run is made.
NoTwin ==
    [tick |-> [tick |-> 0, log |-> TRUE], machine |-> NoMachine,
     territory |-> NoTerritory, panicked |-> FALSE, result |-> FALSE]

\* Before play() is called: ONCE is new, no clock has been made, and the two
\* free-standing resources are Resource::new_empty().
InitOutside ==
    /\ ONCE = "Incomplete"
    /\ calls = [c \in Calls |-> [pc |-> "idle", call_once_ran |-> FALSE]]
    /\ harness = [clocks |-> 0, mains |-> 0, init_tick |-> -1, main_tick |-> -1,
                  advanced |-> 0, reported |-> -1, status |-> "running"]
    /\ resources = << 0, 0 >>
    /\ player = StartingPlayer
    /\ twin = NoTwin
    /\ mark = NoMark

Init ==
    /\ tick = [tick |-> 0, log |-> TRUE]
    /\ recipe = 0
    /\ machine = NoMachine
    /\ handle = "none"
    /\ panicked = FALSE
    /\ last = Did("start")
    /\ shadow = NoMachine
    /\ InitOutside
    /\ territory = NoTerritory

\* ----------------------------------------------------------------- actions
\* Tick::log
Tick_log(t, log) == [t EXCEPT !.log = log]

\* Mutant: the clock only moves while it is logging.
Tick_advance_by_WhenLogging(t, ticks) ==
    IF t.log THEN [t EXCEPT !.tick = @ + ticks] ELSE t

\* Tick::advance_by, short of the overflow: the tick moves; the line printed
\* when `log` is set is not part of the state.
Tick_advance_by(t, ticks) == [t EXCEPT !.tick = @ + ticks]

\* Tick::advance_to_tick
Tick_advance_to_tick(t, target_tick) ==
    IF target_tick > t.tick THEN Tick_advance_by(t, target_tick - t.tick) ELSE t

\* Machine::new
Build(r) ==
    /\ ~panicked
    /\ recipe = 0
    /\ recipe' = r
    /\ machine' = new_inner(r, tick.tick)
    /\ last' = Did("new")
    /\ UNCHANGED << tick, handle, panicked >>

\* Tick::advance_by
AdvanceBy(n) ==
    /\ ~panicked
    /\ tick' = Tick_advance_by(tick, n)
    /\ last' = Did("advance_by")
    /\ UNCHANGED << recipe, machine, handle, panicked >>

\* A write to the public field Tick::tick.
SetTick(v) ==
    /\ ~panicked
    /\ v # tick.tick
    /\ tick' = [tick EXCEPT !.tick = v]
    /\ last' = Did("set_tick")
    /\ UNCHANGED << recipe, machine, handle, panicked >>

\* Machine::inputs / Machine::outputs: sync, then hand out the buffers.
Access(side) ==
    /\ ~panicked
    /\ recipe # 0
    /\ IF TickAssertFails(machine, tick.tick)
          \/ TickUnwrapFails(machine, recipe, tick.tick)
       THEN /\ panicked' = TRUE
            /\ machine' = MachineTickPanic(machine, recipe, tick.tick)
            /\ handle' = "none"
            /\ last' = Did("panic")
       ELSE /\ machine' = MachineTick(machine, recipe, tick.tick)
            /\ handle' = side
            /\ last' = Last("sync", tick.tick - machine.tick,
                            machine.crafting_time,
                            TickCount(machine, recipe, tick.tick),
                            last.op = "sync", NoError)
            /\ UNCHANGED panicked
    /\ UNCHANGED << tick, recipe >>

\* ------------------------------------------------- operations on one buffer
Buffers(m, side) == IF side = Input THEN m.inputs ELSE m.outputs

SetBuffer(m, side, i, v) ==
    IF side = Input THEN [m EXCEPT !.inputs[i] = v]
                    ELSE [m EXCEPT !.outputs[i] = v]

\* Resource::add (RecipeItem::add): merge `a` units into buffer i.
ResourceAdd(m, side, i, a) == SetBuffer(m, side, i, Buffers(m, side)[i] + a)

\* Resource::split_off / Resource::bundle (RecipeItem::take / take_bundle):
\* the checked subtraction succeeds.
SplitOffOk(m, side, i, a) == Buffers(m, side)[i] >= a

ResourceSplitOff(m, side, i, a) ==
    IF SplitOffOk(m, side, i, a)
        THEN SetBuffer(m, side, i, Buffers(m, side)[i] - a)
        ELSE m

\* InsufficientResourceError::new(requested, available)
InsufficientResourceError(requested, available) ==
    [requested_amount |-> requested, available_amount |-> available]

\* Resource::empty (RecipeItem::empty)
ResourceEmpty(m, side, i) == SetBuffer(m, side, i, 0)

\* ------------------------------------------- actions through a live handle
\* handle.i.add(resource)
Add(i, a) ==
    /\ ~panicked
    /\ handle # "none"
    /\ i \in DOMAIN Buffers(machine, handle)
    /\ machine' = ResourceAdd(machine, handle, i, a)
    /\ last' = Did("add")
    /\ UNCHANGED << tick, recipe, handle, panicked >>

\* handle.i.split_off(a) / handle.i.bundle::<a>()
SplitOff(i, a) ==
    /\ ~panicked
    /\ handle # "none"
    /\ i \in DOMAIN Buffers(machine, handle)
    /\ machine' = ResourceSplitOff(machine, handle, i, a)
    /\ last' = IF SplitOffOk(machine, handle, i, a)
                 THEN Did("split_off")
                 ELSE Last("split_off_err", 0, 0, 0, FALSE,
                           InsufficientResourceError(a, Buffers(machine, handle)[i]))
    /\ UNCHANGED << tick, recipe, handle, panicked >>

\* handle.i.empty()
Empty(i) ==
    /\ ~panicked
    /\ handle # "none"
    /\ i \in DOMAIN Buffers(machine, handle)
    /\ machine' = ResourceEmpty(machine, handle, i)
    /\ last' = Did("empty")
    /\ UNCHANGED << tick, recipe, handle, panicked >>

\* handle.i.amount()
Amount(i) ==
    /\ ~panicked
    /\ handle # "none"
    /\ i \in DOMAIN Buffers(machine, handle)
    /\ last' = Last("amount", 0, 0, Buffers(machine, handle)[i], FALSE, NoError)
    /\ UNCHANGED << tick, recipe, machine, handle, panicked >>

\* ---------------------------------------------------- Machine::change_recipe
\* Mutant: the last nonempty item is found, not the first.
FindNonempty_Last(items) ==
    IF \E i \in DOMAIN items : items[i][3] > 0
        THEN CHOOSE i \in DOMAIN items :
                /\ items[i][3] > 0
                /\ \A k \in DOMAIN items : items[k][3] > 0 => k <= i
        ELSE 0

\* find_map(nonempty) over an iterator of (name, needed, current): the index
\* of the first item whose current amount is positive, 0 when there is none.
FindNonempty(items) ==
    IF \E i \in DOMAIN items : items[i][3] > 0
        THEN Min({ i \in DOMAIN items : items[i][3] > 0 })
        ELSE 0

\* Mutant: only the input buffers are looked at.
ChangeRecipeFailure_InputsOnly(m, r) ==
    LET ins == iter_inputs(m, r)
        fi == FindNonempty(ins)
    IN  IF fi # 0
            THEN [resource_type |-> ins[fi][1], amount |-> ins[fi][3],
                  location |-> Input]
        ELSE NoError

\* `failure`: the buffer that blocks the change, NoError when none does.
ChangeRecipeFailure(m, r) ==
    LET ins == iter_inputs(m, r)
        outs == iter_outputs(m, r)
        fi == FindNonempty(ins)
        fo == FindNonempty(outs)
    IN  IF fi # 0
            THEN [resource_type |-> ins[fi][1], amount |-> ins[fi][3],
                  location |-> Input]
        ELSE IF fo # 0
            THEN [resource_type |-> outs[fo][1], amount |-> outs[fo][3],
                  location |-> Output]
        ELSE NoError

\* Mutant: the new machine keeps the old machine's crafting_time.
ChangeRecipeMachine_KeepsTime(m, r, r2) ==
    IF ChangeRecipeFailure(m, r) # NoError THEN m
    ELSE [new_inner(r2, m.tick) EXCEPT !.crafting_time = m.crafting_time]

\* The machine change_recipe returns, inside Ok or inside the error.
ChangeRecipeMachine(m, r, r2) ==
    IF ChangeRecipeFailure(m, r) # NoError THEN m ELSE new_inner(r2, m.tick)

\* machine.change_recipe(r2): consumes the machine, so no handle is alive.
ChangeRecipe(r2) ==
    /\ ~panicked
    /\ recipe # 0
    /\ machine' = ChangeRecipeMachine(machine, recipe, r2)
    /\ recipe' = IF ChangeRecipeFailure(machine, recipe) # NoError THEN recipe ELSE r2
    /\ last' = IF ChangeRecipeFailure(machine, recipe) # NoError
                 THEN Last("change_recipe_err", 0, 0, 0, FALSE,
                           ChangeRecipeFailure(machine, recipe))
                 ELSE Last("change_recipe_ok", 0, machine.crafting_time, 0, FALSE,
                           NoError)
    /\ handle' = "none"
    /\ UNCHANGED << tick, panicked >>

\* ------------------------------------------------------------ specification
\* The total amount the machine holds.
Held(m) == SumSeq(m.inputs) + SumSeq(m.outputs)

Next ==
    \/ \E r \in RecipeIds : Build(r) /\ UNCHANGED << shadow, outside >>
    \/ \E n \in 1..MaxAdvance :
        tick.tick + n <= MaxTick /\ AdvanceBy(n) /\ UNCHANGED << shadow, outside >>
    \/ \E v \in 0..MaxTick : SetTick(v) /\ UNCHANGED << shadow, outside >>
    \/ \E side \in {Input, Output} : Access(side) /\ UNCHANGED << shadow, outside >>
    \/ \E i \in 1..2, a \in 1..MaxAmount :
        Held(machine) + a <= MaxAmount /\ Add(i, a) /\ UNCHANGED << shadow, outside >>
    \/ \E i \in 1..2, a \in 1..MaxAmount : SplitOff(i, a) /\ UNCHANGED << shadow, outside >>
    \/ \E i \in 1..2 : Empty(i) /\ UNCHANGED << shadow, outside >>
    \/ \E i \in 1..2 : Amount(i) /\ UNCHANGED << shadow, outside >>
    \/ \E r2 \in RecipeIds : ChangeRecipe(r2) /\ UNCHANGED << shadow, outside >>

Spec == Init /\ [][Next]_vars

\* ------------------------------------------- batched against per-tick sync
\* The machine m synced once after each of the n single-tick advances that
\* follow clock tick t.
RECURSIVE SyncEachTick(_, _, _, _)
SyncEachTick(m, r, t, n) ==
    IF n = 0 THEN m
    ELSE SyncEachTick(MachineTick(m, r, t + 1), r, t + 1, n - 1)

\* Both machines are built alike.
BatchBuild(r) == Build(r) /\ shadow' = machine'

\* One advance_by(n) for the machine; n advances, each followed by a sync,
\* for the shadow.
BatchAdvanceBy(n) ==
    /\ AdvanceBy(n)
    /\ shadow' = IF recipe = 0 THEN shadow
                 ELSE SyncEachTick(shadow, recipe, tick.tick, n)

\* The same access to both machines: the machine is synced in one batch, the
\* shadow, synced after every tick, once more at the tick it is already at.
BatchAccess(side) ==
    /\ Access(side)
    /\ shadow' = IF recipe = 0 \/ panicked' THEN shadow
                 ELSE MachineTick(shadow, recipe, tick.tick)

\* The same mutation of both machines, through a handle taken at this tick.
BatchAdd(i, a) ==
    /\ machine.tick = tick.tick
    /\ Add(i, a)
    /\ shadow' = ResourceAdd(shadow, handle, i, a)

BatchSplitOff(i, a) ==
    /\ machine.tick = tick.tick
    /\ SplitOff(i, a)
    /\ shadow' = ResourceSplitOff(shadow, handle, i, a)

BatchEmpty(i) ==
    /\ machine.tick = tick.tick
    /\ Empty(i)
    /\ shadow' = ResourceEmpty(shadow, handle, i)

\* The comparison starts again from the machine change_recipe returns.
BatchChangeRecipe(r2) == ChangeRecipe(r2) /\ shadow' = machine'

NextBatch ==
    \/ \E r \in RecipeIds : BatchBuild(r) /\ UNCHANGED outside
    \/ \E n \in 1..MaxAdvance :
        tick.tick + n <= MaxTick /\ BatchAdvanceBy(n) /\ UNCHANGED outside
    \/ \E side \in {Input, Output} : BatchAccess(side) /\ UNCHANGED outside
    \/ \E i \in 1..2, a \in 1..MaxAmount :
        Held(machine) + a <= MaxAmount /\ BatchAdd(i, a) /\ UNCHANGED outside
    \/ \E i \in 1..2, a \in 1..MaxAmount : BatchSplitOff(i, a) /\ UNCHANGED outside
    \/ \E i \in 1..2 : BatchEmpty(i) /\ UNCHANGED outside
    \/ \E r2 \in RecipeIds : BatchChangeRecipe(r2) /\ UNCHANGED outside

SpecBatch == Init /\ [][NextBatch]_vars

\* ------------------------------------------------------ the worked scenarios
\* The clock of the scenarios runs to tick 100, in these steps.
ScenarioMaxTick == 100
ScenarioAdvances == {10, 100}
\* The amounts the scenarios insert: at most 20 units are held.
ScenarioMaxAmount == 20
ScenarioAmounts == {3, 17, 20}

NextScenario ==
    \/ \E r \in {2, ScenarioRecipe} : Build(r) /\ UNCHANGED << shadow, outside >>
    \/ \E n \in ScenarioAdvances :
        tick.tick + n <= ScenarioMaxTick /\ AdvanceBy(n) /\ UNCHANGED << shadow, outside >>
    \/ \E side \in {Input, Output} : Access(side) /\ UNCHANGED << shadow, outside >>
    \/ \E i \in 1..2, a \in ScenarioAmounts :
        Held(machine) + a <= ScenarioMaxAmount /\ Add(i, a) /\ UNCHANGED << shadow, outside >>

SpecScenario == Init /\ [][NextScenario]_vars

\* ------------------------------------------------------------------ the clock
\* Tick::log
Log(b) ==
    /\ ~panicked
    /\ tick' = Tick_log(tick, b)
    /\ last' = [op |-> "log", log |-> b]
    /\ UNCHANGED << recipe, machine, handle, panicked >>

\* Tick::advance: advance_by(1)
Advance ==
    /\ ~panicked
    /\ tick' = Tick_advance_by(tick, 1)
    /\ last' = [op |-> "advance"]
    /\ UNCHANGED << recipe, machine, handle, panicked >>

\* Tick::advance_to_tick: advance_by(target_tick - self.tick) when the target
\* lies ahead, nothing otherwise.
AdvanceToTick(target_tick) ==
    /\ ~panicked
    /\ tick' = Tick_advance_to_tick(tick, target_tick)
    /\ last' = [op |-> "advance_to_tick", target_tick |-> target_tick]
    /\ UNCHANGED << recipe, machine, handle, panicked >>

\* Mutant: the budget alone ends the loop, the condition is not looked at.
UntilLoop_BudgetOnly(t, advances, start_tick, condition, max_ticks) ==
    [tick |-> start_tick + max_ticks, advances |-> max_ticks]

\* The loop of Tick::advance_until, entered at tick t after `advances` calls
\* of advance(): while !condition(self) && self.tick - start_tick < max_ticks.
\* A condition is the set of the ticks at which the closure returns true.
RECURSIVE UntilLoop(_, _, _, _, _)
UntilLoop(t, advances, start_tick, condition, max_ticks) ==
    IF t \notin condition /\ t - start_tick < max_ticks
        THEN UntilLoop(t + 1, advances + 1, start_tick, condition, max_ticks)
        ELSE [tick |-> t, advances |-> advances]

\* The value advance_until returns: self.tick - start_tick < max_ticks
UntilResult(t, start_tick, max_ticks) == t - start_tick < max_ticks

\* Tick::advance_until on the clock t: the clock it leaves, the calls of
\* advance() it made, the value it returns.
Tick_advance_until(t, condition, max_ticks) ==
    LET end == UntilLoop(t.tick, 0, t.tick, condition, max_ticks)
    IN  [self |-> Tick_advance_by(t, end.advances),
         advances |-> end.advances,
         result |-> UntilResult(end.tick, t.tick, max_ticks)]

\* Tick::advance_until
AdvanceUntil(condition, max_ticks) ==
    /\ ~panicked
    /\ tick' = Tick_advance_until(tick, condition, max_ticks).self
    /\ last' = [op |-> "advance_until", condition |-> condition,
                max_ticks |-> max_ticks, start_tick |-> tick.tick,
                advances |-> Tick_advance_until(tick, condition, max_ticks).advances,
                result |-> Tick_advance_until(tick, condition, max_ticks).result]
    /\ UNCHANGED << recipe, machine, handle, panicked >>

\* The clock driven through every operation it offers.
NextClock ==
    \/ \E b \in BOOLEAN : Log(b) /\ UNCHANGED << shadow, outside >>
    \/ tick.tick + 1 <= MaxTick /\ Advance /\ UNCHANGED << shadow, outside >>
    \/ \E n \in 1..MaxAdvance :
        tick.tick + n <= MaxTick /\ AdvanceBy(n) /\ UNCHANGED << shadow, outside >>
    \/ \E target_tick \in 0..MaxTick : AdvanceToTick(target_tick) /\ UNCHANGED << shadow, outside >>
    \/ \E condition \in SUBSET (0..MaxTick), max_ticks \in 0..MaxAdvance :
        /\ tick.tick + max_ticks <= MaxTick
        /\ AdvanceUntil(condition, max_ticks)
        /\ UNCHANGED << shadow, outside >>
    \/ \E v \in 0..MaxTick : SetTick(v) /\ UNCHANGED << shadow, outside >>

SpecClock == Init /\ [][NextClock]_vars

\* ------------------------------------------------ the clock at its full width
\* Tick::tick is a u64.  Here it is held at full width, as four 16-bit limbs,
\* least significant first, so that tick + ticks can leave the 64-bit range.
LimbBase == 65536
U64_MAX == << LimbBase - 1, LimbBase - 1, LimbBase - 1, LimbBase - 1 >>

\* The u64 of a number below LimbBase^2.
U64(n) == << n % LimbBase, n \div LimbBase, 0, 0 >>

\* The carry into limb i of a + b.
RECURSIVE Carry(_, _, _)
Carry(a, b, i) ==
    IF i = 1 THEN 0
    ELSE (a[i - 1] + b[i - 1] + Carry(a, b, i - 1)) \div LimbBase

\* u64::wrapping_add
wrapping_add(a, b) ==
    [i \in 1..Len(a) |-> (a[i] + b[i] + Carry(a, b, i)) % LimbBase]

\* Mutant: the sum wraps around instead of being refused.
checked_add_Wraps(a, b) == [some |-> TRUE, value |-> wrapping_add(a, b)]

\* u64::checked_add: None when the sum does not fit.
checked_add(a, b) ==
    IF Carry(a, b, Len(a) + 1) > 0
        THEN [some |-> FALSE, value |-> a]
        ELSE [some |-> TRUE, value |-> wrapping_add(a, b)]

\* The u64 values the clock is set to and advanced by: 0, 1, 2, the last
\* value of one limb, 2^16, 2^32, 2^63, and the three values up to u64::MAX.
U64Values ==
    { U64(0), U64(1), U64(2), U64(LimbBase - 1), U64(LimbBase),
      << 0, 0, 1, 0 >>, << 0, 0, 0, LimbBase \div 2 >>,
      << LimbBase - 3, LimbBase - 1, LimbBase - 1, LimbBase - 1 >>,
      << LimbBase - 2, LimbBase - 1, LimbBase - 1, LimbBase - 1 >>,
      U64_MAX }

InitU64 ==
    /\ tick = [tick |-> U64(0), log |-> TRUE]
    /\ recipe = 0
    /\ machine = NoMachine
    /\ handle = "none"
    /\ panicked = FALSE
    /\ last = Did("start")
    /\ shadow = NoMachine
    /\ InitOutside
    /\ territory = NoTerritory

\* A write to the public field Tick::tick.
SetTickU64(v) ==
    /\ ~panicked
    /\ v # tick.tick
    /\ tick' = [tick EXCEPT !.tick = v]
    /\ last' = [op |-> "set_tick", v |-> v]
    /\ UNCHANGED << recipe, machine, handle, panicked >>

\* Tick::advance_by: self.tick = self.tick.checked_add(ticks).expect(..)
AdvanceByU64(ticks) ==
    LET sum == checked_add(tick.tick, ticks)
    IN  /\ ~panicked
        /\ IF sum.some
            THEN /\ tick' = [tick EXCEPT !.tick = sum.value]
                 /\ UNCHANGED panicked
            ELSE /\ panicked' = TRUE
                 /\ UNCHANGED tick
        /\ last' = [op |-> "advance_by", ticks |-> ticks]
        /\ UNCHANGED << recipe, machine, handle >>

\* The clock is advanced from the values of U64Values only, which keeps the
\* reachable ticks finite.
NextU64 ==
    \/ \E v \in U64Values : SetTickU64(v) /\ UNCHANGED << shadow, outside >>
    \/ \E ticks \in U64Values :
        tick.tick \in U64Values /\ AdvanceByU64(ticks) /\ UNCHANGED << shadow, outside >>
    \/ \E b \in BOOLEAN : Log(b) /\ UNCHANGED << shadow, outside >>

SpecU64 == InitU64 /\ [][NextU64]_vars

\* --------------------------------------------------------------------- play()
\* The positions of one call of play(): "idle" (not made yet), "call_once"
\* (at ONCE.call_once), "closure" (running the closure), "check" (at the test
\* of call_once_ran), "start" (past the test), "main" (inside the user
\* function), "panicked", "exited".
SetCall(c, pc, ran) == [calls EXCEPT ![c] = [pc |-> pc, call_once_ran |-> ran]]

\* Mutant: every caller runs the closure, whatever the state of ONCE.
call_once_Unguarded(once) == "run"

\* Once::call_once, by the state it finds: the first caller runs the closure,
\* a caller that arrives while the closure runs waits for it, a caller that
\* arrives after it returns at once.
call_once(once) ==
    IF once = "Incomplete" THEN "run"
    ELSE IF once = "Running" THEN "wait"
    ELSE "return"

\* play() is called: let mut call_once_ran = false
PlayEnter(c) ==
    /\ harness.status = "running"
    /\ calls[c].pc = "idle"
    /\ calls' = SetCall(c, "call_once", FALSE)
    /\ UNCHANGED << tick, panicked, last, ONCE, harness >>

\* ONCE.call_once(..), up to the closure
CallOnce(c) ==
    /\ harness.status = "running"
    /\ calls[c].pc = "call_once"
    /\ call_once(ONCE) # "wait"
    /\ IF call_once(ONCE) = "run"
        THEN /\ ONCE' = "Running"
             /\ calls' = SetCall(c, "closure", calls[c].call_once_ran)
        ELSE /\ UNCHANGED ONCE
             /\ calls' = SetCall(c, "check", calls[c].call_once_ran)
    /\ UNCHANGED << tick, panicked, last, harness >>

\* The closure, || call_once_ran = true, and the end of call_once.
Closure(c) ==
    /\ harness.status = "running"
    /\ calls[c].pc = "closure"
    /\ ONCE' = "Complete"
    /\ calls' = SetCall(c, "check", TRUE)
    /\ UNCHANGED << tick, panicked, last, harness >>

\* if !call_once_ran { panic!(..) }
PlayCheck(c) ==
    /\ harness.status = "running"
    /\ calls[c].pc = "check"
    /\ calls' = SetCall(c, IF calls[c].call_once_ran THEN "start" ELSE "panicked",
                        calls[c].call_once_ran)
    /\ UNCHANGED << tick, panicked, last, ONCE, harness >>

\* Tick::start
TickStart == [tick |-> 0, log |-> TRUE]

\* let tick = Tick::start(); let start_resources = init(&tick); main(tick, ..)
PlayStart(c) ==
    /\ harness.status = "running"
    /\ calls[c].pc = "start"
    /\ tick' = TickStart
    /\ harness' = [harness EXCEPT !.clocks = @ + 1, !.mains = @ + 1,
                                  !.init_tick = tick'.tick,
                                  !.main_tick = tick'.tick]
    /\ calls' = SetCall(c, "main", calls[c].call_once_ran)
    /\ last' = [op |-> "main"]
    /\ UNCHANGED << panicked, ONCE >>

\* Inside the user function: tick.advance_by(n)
PlayAdvanceBy(n) ==
    /\ harness.status = "running"
    /\ \E c \in Calls : calls[c].pc = "main"
    /\ AdvanceBy(n)
    /\ harness' = [harness EXCEPT !.advanced = @ + n]
    /\ UNCHANGED << ONCE, calls >>

\* Inside the user function: a write to the public field Tick::tick
PlaySetTick(v) ==
    /\ harness.status = "running"
    /\ \E c \in Calls : calls[c].pc = "main"
    /\ SetTick(v)
    /\ UNCHANGED << ONCE, calls, harness >>

\* main returns: println!("You won in {} ticks!", tick.cur()); exit(0)
PlayReturn(c) ==
    /\ harness.status = "running"
    /\ calls[c].pc = "main"
    /\ harness' = [harness EXCEPT !.reported = tick.tick, !.status = "exit(0)"]
    /\ calls' = SetCall(c, "exited", calls[c].call_once_ran)
    /\ last' = [op |-> "exit"]
    /\ UNCHANGED << tick, panicked, ONCE >>

\* The state play() does not touch.
beside == << recipe, machine, handle, shadow, resources, territory, player, twin, mark >>

\* Calls of play() from the threads of one process, in every interleaving.
NextPlay ==
    \/ \E c \in Calls : PlayEnter(c) /\ UNCHANGED beside
    \/ \E c \in Calls : CallOnce(c) /\ UNCHANGED beside
    \/ \E c \in Calls : Closure(c) /\ UNCHANGED beside
    \/ \E c \in Calls : PlayCheck(c) /\ UNCHANGED beside
    \/ \E c \in Calls : PlayStart(c) /\ UNCHANGED beside
    \/ \E n \in 1..MaxAdvance :
        /\ tick.tick + n <= MaxTick
        /\ harness.advanced + n <= MaxTick
        /\ PlayAdvanceBy(n)
        /\ UNCHANGED << shadow, resources, territory, player, twin, mark >>
    \/ \E v \in 0..MaxTick :
        PlaySetTick(v) /\ UNCHANGED << shadow, resources, territory, player, twin, mark >>
    \/ \E c \in Calls : PlayReturn(c) /\ UNCHANGED beside

SpecPlay == Init /\ [][NextPlay]_vars

\* ---------------------------------------------------- Resource and RecipeItem
\* u32::checked_sub
checked_sub(x, a) ==
    IF x >= a THEN [some |-> TRUE, value |-> x - a]
    ELSE [some |-> FALSE, value |-> x]

\* What a checked extraction leaves and returns: the container's amount
\* afterwards, Ok or Err, the amount of the value inside Ok, the error.
Extraction(self, ok, value, err) ==
    [self |-> self, ok |-> ok, value |-> value, err |-> err]

\* Resource::split_off on a Resource holding x
Resource_split_off(x, amount) ==
    IF checked_sub(x, amount).some
        THEN Extraction(checked_sub(x, amount).value, TRUE, amount,
                        InsufficientResourceError(0, 0))
        ELSE Extraction(x, FALSE, 0, InsufficientResourceError(amount, x))

\* Resource::bundle::<AMOUNT> on a Resource holding x
Resource_bundle(x, AMOUNT) ==
    IF checked_sub(x, AMOUNT).some
        THEN Extraction(checked_sub(x, AMOUNT).value, TRUE, AMOUNT,
                        InsufficientResourceError(0, 0))
        ELSE Extraction(x, FALSE, 0, InsufficientResourceError(AMOUNT, x))

\* Mutant: a request for all the buffer holds is refused.
RecipeItem_take_Strict(x, amount) ==
    IF x > amount
        THEN Extraction(x - amount, TRUE, amount, InsufficientResourceError(0, 0))
        ELSE Extraction(x, FALSE, 0, InsufficientResourceError(amount, x))

\* RecipeItem::take on a buffer holding x
RecipeItem_take(x, amount) ==
    IF x >= amount
        THEN Extraction(x - amount, TRUE, amount, InsufficientResourceError(0, 0))
        ELSE Extraction(x, FALSE, 0, InsufficientResourceError(amount, x))

\* RecipeItem::take_bundle::<BUNDLE_AMOUNT> on a buffer holding x
RecipeItem_take_bundle(x, BUNDLE_AMOUNT) ==
    IF x >= BUNDLE_AMOUNT
        THEN Extraction(x - BUNDLE_AMOUNT, TRUE, BUNDLE_AMOUNT,
                        InsufficientResourceError(0, 0))
        ELSE Extraction(x, FALSE, 0, InsufficientResourceError(BUNDLE_AMOUNT, x))

\* Resource::split, which consumes the Resource holding x: Ok((remainder,
\* taken)) or Err(the original).
Resource_split(x, amount) ==
    IF checked_sub(x, amount).some
        THEN [ok |-> TRUE, remainder |-> checked_sub(x, amount).value,
              taken |-> amount, original |-> 0]
        ELSE [ok |-> FALSE, remainder |-> 0, taken |-> 0, original |-> x]

\* Resource::empty
Resource_empty(x) == [self |-> 0, value |-> x]

\* Mutant: the other Resource is overwritten, not added to.
Resource_empty_into_Overwrites(x, other) == [self |-> 0, other |-> x]

\* Resource::empty_into
Resource_empty_into(x, other) == [self |-> 0, other |-> other + x]

\* The history of one operation on a container: the operation, the container
\* (a free-standing Resource or a buffer behind the handle), its place, the
\* amount asked for, the amount it held, and the operation's result.
Op(op, container, place, requested, before, ret) ==
    [op |-> op, container |-> container, place |-> place,
     requested |-> requested, before |-> before, ret |-> ret]

\* resources[i].add(other), other holding a
ResAdd(i, a) ==
    /\ resources' = [resources EXCEPT ![i] = @ + a]
    /\ last' = Op("Resource::add", "resource", i, a, resources[i], << >>)

\* resources[i].split_off(a)
ResSplitOff(i, a) ==
    /\ resources' = [resources EXCEPT ![i] = Resource_split_off(@, a).self]
    /\ last' = Op("Resource::split_off", "resource", i, a, resources[i],
                  Resource_split_off(resources[i], a))

\* resources[i].bundle::<a>()
ResBundle(i, a) ==
    /\ resources' = [resources EXCEPT ![i] = Resource_bundle(@, a).self]
    /\ last' = Op("Resource::bundle", "resource", i, a, resources[i],
                  Resource_bundle(resources[i], a))

\* resources[i] = match resources[i].split(a): the remainder is kept in
\* place of the Resource that was split, or the original that came back.
ResSplit(i, a) ==
    LET ret == Resource_split(resources[i], a)
    IN  /\ resources' = [resources EXCEPT
                            ![i] = IF ret.ok THEN ret.remainder ELSE ret.original]
        /\ last' = Op("Resource::split", "resource", i, a, resources[i], ret)

\* resources[i].empty()
ResEmpty(i) ==
    /\ resources' = [resources EXCEPT ![i] = Resource_empty(@).self]
    /\ last' = Op("Resource::empty", "resource", i, 0, resources[i],
                  Resource_empty(resources[i]))

\* resources[i].empty_into(&mut resources[j])
ResEmptyInto(i, j) ==
    LET ret == Resource_empty_into(resources[i], resources[j])
    IN  /\ i # j
        /\ resources' = [resources EXCEPT ![i] = ret.self, ![j] = ret.other]
        /\ last' = Op("Resource::empty_into", "resource", i, 0, resources[i],
                      [other_place |-> j, other_before |-> resources[j]])

\* handle.i.take(a)
Take(i, a) ==
    LET ret == RecipeItem_take(Buffers(machine, handle)[i], a)
    IN  /\ ~panicked
        /\ handle # "none"
        /\ i \in DOMAIN Buffers(machine, handle)
        /\ machine' = SetBuffer(machine, handle, i, ret.self)
        /\ last' = Op("RecipeItem::take", "item", i, a,
                      Buffers(machine, handle)[i], ret)
        /\ UNCHANGED << tick, recipe, handle, panicked >>

\* handle.i.take_bundle::<a>()
TakeBundle(i, a) ==
    LET ret == RecipeItem_take_bundle(Buffers(machine, handle)[i], a)
    IN  /\ ~panicked
        /\ handle # "none"
        /\ i \in DOMAIN Buffers(machine, handle)
        /\ machine' = SetBuffer(machine, handle, i, ret.self)
        /\ last' = Op("RecipeItem::take_bundle", "item", i, a,
                      Buffers(machine, handle)[i], ret)
        /\ UNCHANGED << tick, recipe, handle, panicked >>

\* What an operation on the free-standing resources leaves alone.
NotResources ==
    << tick, recipe, machine, handle, panicked, shadow,
       ONCE, calls, harness, territory, player, twin, mark >>

\* What an operation on the machine leaves alone.
NotMachine == << shadow, outside >>

\* Free-standing resources and the buffers of a machine, filled and drawn on.
\* The two do not touch each other's state: the resources are worked on
\* before the machine is built, the machine once they are empty again.
NextResource ==
    \/ \E i \in 1..2, a \in 1..MaxAmount :
        /\ recipe = 0
        /\ resources[1] + resources[2] + a <= MaxAmount
        /\ ResAdd(i, a)
        /\ UNCHANGED NotResources
    \/ \E i \in 1..2, a \in 0..MaxAmount :
        recipe = 0 /\ ResSplitOff(i, a) /\ UNCHANGED NotResources
    \/ \E i \in 1..2, a \in 0..MaxAmount :
        recipe = 0 /\ ResBundle(i, a) /\ UNCHANGED NotResources
    \/ \E i \in 1..2, a \in 0..MaxAmount :
        recipe = 0 /\ ResSplit(i, a) /\ UNCHANGED NotResources
    \/ \E i \in 1..2 : recipe = 0 /\ ResEmpty(i) /\ UNCHANGED NotResources
    \/ \E i \in 1..2, j \in 1..2 :
        recipe = 0 /\ ResEmptyInto(i, j) /\ UNCHANGED NotResources
    \/ \E r \in RecipeIds :
        resources = << 0, 0 >> /\ Build(r) /\ UNCHANGED NotMachine
    \/ \E side \in {Input, Output} : Access(side) /\ UNCHANGED NotMachine
    \/ \E i \in 1..2, a \in 1..MaxAmount :
        Held(machine) + a <= MaxAmount /\ Add(i, a) /\ UNCHANGED NotMachine
    \/ \E i \in 1..2, a \in 0..MaxAmount : Take(i, a) /\ UNCHANGED NotMachine
    \/ \E i \in 1..2, a \in 0..MaxAmount : TakeBundle(i, a) /\ UNCHANGED NotMachine

SpecResource == Init /\ [][NextResource]_vars

\* ------------------------------------------------------------------ Territory
\* Ore is mined every MINING_TICK_LENGTH ticks by each miner.
MINING_TICK_LENGTH == 2

\* The largest max_miners a territory is made with.
MaxMiners == 2

tick_to_mining_tick(t) == t \div MINING_TICK_LENGTH

\* Territory::new.  The field `tick` is history: the clock tick of the
\* territory's last sync, of which the code keeps the mining tick only.
TerritoryNew(t, max_miners) ==
    [mining_tick |-> tick_to_mining_tick(t), max_miners |-> max_miners,
     miners |-> 0, resources |-> 0, tick |-> t]

\* The assertion of Territory::tick fails: "Tick went backwards".
TerritoryAssertFails(terr, cur) == ~(terr.mining_tick <= tick_to_mining_tick(cur))

\* Mutant: the ore of a sync is counted from the ticks since the last sync.
TerritoryMined_ByElapsed(terr, cur) ==
    ((cur - terr.tick) \div MINING_TICK_LENGTH) * terr.miners

\* The ore one sync adds: mining_tick_delta * self.miners
TerritoryMined(terr, cur) ==
    (tick_to_mining_tick(cur) - terr.mining_tick) * terr.miners

\* Mutant: the sync does not store the mining tick it counted up to.
TerritoryTick_Unstored(terr, cur) ==
    [terr EXCEPT !.resources = @ + TerritoryMined(terr, cur),
                 !.tick = cur]

\* Territory::tick, when it returns.
TerritoryTick(terr, cur) ==
    [terr EXCEPT !.resources = @ + TerritoryMined(terr, cur),
                 !.mining_tick = tick_to_mining_tick(cur),
                 !.tick = cur]

\* The history of one access to the territory: the ticks since its last
\* sync, the miners it had, the ore the sync added, what the call returned.
Synced(op, ret) ==
    [op |-> op, elapsed |-> tick.tick - territory.tick,
     miners |-> territory.miners,
     mined |-> TerritoryMined(territory, tick.tick), ret |-> ret]

\* Every access syncs first; a sync whose assertion fails ends the process.
TerritoryPanics ==
    /\ TerritoryAssertFails(territory, tick.tick)
    /\ panicked' = TRUE
    /\ last' = [op |-> "panic"]
    /\ UNCHANGED << tick, territory >>

\* Mutant: a miner is added while the count is at or below max_miners.
AddMinerFits_Inclusive(terr) == terr.miners <= terr.max_miners

\* if self.miners < self.max_miners
AddMinerFits(terr) == terr.miners < terr.max_miners

\* TerritoryFullError
TerritoryFullError(max_miners, miner) ==
    [ok |-> FALSE, max_miners |-> max_miners, miner |-> miner]

\* Mutant: the miner is counted before the territory is synced.
TerritoryAddMiner_CountsFirst ==
    /\ ~panicked
    /\ \/ TerritoryPanics
       \/ /\ ~TerritoryAssertFails(territory, tick.tick)
          /\ territory' =
                IF AddMinerFits(territory)
                    THEN TerritoryTick([territory EXCEPT !.miners = @ + 1], tick.tick)
                    ELSE TerritoryTick(territory, tick.tick)
          /\ last' = Synced("add_miner",
                IF AddMinerFits(territory)
                    THEN [ok |-> TRUE]
                    ELSE TerritoryFullError(territory.max_miners, "Miner"))
          /\ UNCHANGED << tick, panicked >>

\* Territory::add_miner
TerritoryAddMiner ==
    /\ ~panicked
    /\ \/ TerritoryPanics
       \/ /\ ~TerritoryAssertFails(territory, tick.tick)
          /\ territory' =
                IF AddMinerFits(TerritoryTick(territory, tick.tick))
                    THEN [TerritoryTick(territory, tick.tick) EXCEPT !.miners = @ + 1]
                    ELSE TerritoryTick(territory, tick.tick)
          /\ last' = Synced("add_miner",
                IF AddMinerFits(TerritoryTick(territory, tick.tick))
                    THEN [ok |-> TRUE]
                    ELSE TerritoryFullError(territory.max_miners, "Miner"))
          /\ UNCHANGED << tick, panicked >>

\* Mutant: a miner is handed out whatever the count.
TakeMinerHas_Always(terr) == terr.miners >= 0

\* if self.miners > 0
TakeMinerHas(terr) == terr.miners > 0

\* Territory::take_miner
TerritoryTakeMiner ==
    /\ ~panicked
    /\ \/ TerritoryPanics
       \/ /\ ~TerritoryAssertFails(territory, tick.tick)
          /\ territory' =
                IF TakeMinerHas(TerritoryTick(territory, tick.tick))
                    THEN [TerritoryTick(territory, tick.tick) EXCEPT !.miners = @ - 1]
                    ELSE TerritoryTick(territory, tick.tick)
          /\ last' = Synced("take_miner",
                IF TakeMinerHas(TerritoryTick(territory, tick.tick))
                    THEN "Some(Miner)" ELSE "None")
          /\ UNCHANGED << tick, panicked >>

\* territory.resources(&tick).amount()
TerritoryResources ==
    /\ ~panicked
    /\ \/ TerritoryPanics
       \/ /\ ~TerritoryAssertFails(territory, tick.tick)
          /\ territory' = TerritoryTick(territory, tick.tick)
          /\ last' = Synced("resources", territory'.resources)
          /\ UNCHANGED << tick, panicked >>

\* territory.resources(&tick).empty()
TerritoryEmpty ==
    /\ ~panicked
    /\ \/ TerritoryPanics
       \/ /\ ~TerritoryAssertFails(territory, tick.tick)
          /\ territory' = [TerritoryTick(territory, tick.tick) EXCEPT
                            !.resources = Resource_empty(@).self]
          /\ last' = Synced("resources_empty",
                Resource_empty(TerritoryTick(territory, tick.tick).resources).value)
          /\ UNCHANGED << tick, panicked >>

\* bundle(): a Bundle carries its amount in its type.
BundleNew(AMOUNT) == [AMOUNT |-> AMOUNT]

\* The ticks hand_mine advances the clock by: the amount, widened to u64,
\* times the cadence (at most 2^33, so the product always fits).
HandMineTicks(AMOUNT) == AMOUNT * MINING_TICK_LENGTH

\* Territory::hand_mine::<AMOUNT>
TerritoryHandMine(AMOUNT) ==
    /\ ~panicked
    /\ \/ TerritoryPanics
       \/ /\ ~TerritoryAssertFails(territory, tick.tick)
          /\ territory' = TerritoryTick(territory, tick.tick)
          /\ tick' = [tick EXCEPT !.tick = @ + HandMineTicks(AMOUNT)]
          /\ last' = Synced("hand_mine",
                [requested |-> AMOUNT, bundle |-> BundleNew(AMOUNT)])
          /\ UNCHANGED panicked

\* A u32 as two 16-bit limbs, least significant first.
U32(n) == << n % LimbBase, n \div LimbBase >>

\* The number a u32 below 2^31 stands for.
U32Value(a) == a[1] + a[2] * LimbBase

\* The `2 * AMOUNT` of mine_iron and mine_copper is a u32 product: it does
\* not fit when AMOUNT is 2^31 or more.
MineOverflows(AMOUNT) == Carry(AMOUNT, AMOUNT, Len(AMOUNT) + 1) > 0

\* The product as the build without overflow checks computes it.
MineTicks(AMOUNT) == wrapping_add(AMOUNT, AMOUNT)

\* The amounts mine_iron is called with: 1, 2, 2^31 and 2^31 + 1.
MineAmounts == { U32(1), U32(2), << 0, 32768 >>, << 1, 32768 >> }

\* mine_iron::<AMOUNT> and mine_copper::<AMOUNT>: call Tick::next
\* `2 * AMOUNT` times, then make the bundle. A build with overflow checks
\* panics on a product that does not fit; a build without them wraps it.
MineIron(AMOUNT, overflow_checks) ==
    /\ ~panicked
    /\ IF MineOverflows(AMOUNT) /\ overflow_checks
        THEN /\ panicked' = TRUE
             /\ last' = [op |-> "panic", of |-> "mine_iron"]
             /\ UNCHANGED tick
        ELSE /\ tick' = [tick EXCEPT !.tick = @ + U32Value(MineTicks(AMOUNT))]
             /\ last' = [op |-> "mine_iron", requested |-> AMOUNT,
                         bundle |-> BundleNew(AMOUNT)]
             /\ UNCHANGED panicked
    /\ UNCHANGED territory

\* A territory of 1..MaxMiners slots, made at tick 0 with the starting
\* resources.
InitTerritory ==
    /\ tick = TickStart
    /\ recipe = 0
    /\ machine = NoMachine
    /\ handle = "none"
    /\ panicked = FALSE
    /\ last = Did("start")
    /\ shadow = NoMachine
    /\ InitOutside
    /\ \E max_miners \in 1..MaxMiners :
        territory = TerritoryNew(tick.tick, max_miners)

\* What an access to the territory leaves alone.
NotTerritory ==
    << recipe, machine, handle, shadow, ONCE, calls, harness, resources,
       player, twin, mark >>

NextTerritory ==
    \/ \E n \in 1..MaxAdvance :
        tick.tick + n <= MaxTick /\ AdvanceBy(n) /\ UNCHANGED << shadow, outside >>
    \/ \E v \in 0..MaxTick : SetTick(v) /\ UNCHANGED << shadow, outside >>
    \/ TerritoryAddMiner /\ UNCHANGED NotTerritory
    \/ TerritoryTakeMiner /\ UNCHANGED NotTerritory
    \/ TerritoryResources /\ UNCHANGED NotTerritory
    \/ TerritoryEmpty /\ UNCHANGED NotTerritory
    \/ \E AMOUNT \in 1..MaxAdvance :
        /\ tick.tick + AMOUNT * MINING_TICK_LENGTH <= MaxTick
        /\ TerritoryHandMine(AMOUNT)
        /\ UNCHANGED NotTerritory
    \/ \E AMOUNT \in MineAmounts, overflow_checks \in BOOLEAN :
        /\ tick.tick + U32Value(MineTicks(AMOUNT)) <= MaxTick
        /\ MineIron(AMOUNT, overflow_checks)
        /\ UNCHANGED NotTerritory

SpecTerritory == InitTerritory /\ [][NextTerritory]_vars

\* ---------------------------------------------------------------- research
\* Lab::build(tick, &technology, iron, copper): a Machine<TechRecipe<T>>; the
\* caller must hold the technology to name it.
LabBuild(T) ==
    /\ T \in player.technologies
    /\ Build(tech_recipe(T))

\* Lab::change_technology(&technology2): change_recipe(tech_recipe())
LabChangeTechnology(T2) ==
    /\ T2 \in player.technologies
    /\ recipe \in TechRecipeIds
    /\ ChangeRecipe(tech_recipe(T2))

\* Lab::inputs / Lab::outputs: the machine's, with the points the sync made
\* counted for the lab's technology.
LabAccess(side) ==
    /\ recipe \in TechRecipeIds
    /\ Access(side)
    /\ player' = IF panicked' THEN player
                 ELSE [player EXCEPT !.produced[TechnologyOf(recipe)] =
                            @ + TickCount(machine, recipe, tick.tick)]

\* Mutant: research points are of one kind, whatever lab they come from.
LabTakePoints_OneKind(a) ==
    /\ recipe \in TechRecipeIds
    /\ handle = Output
    /\ SplitOff(1, a)
    /\ player' = IF SplitOffOk(machine, Output, 1, a)
                    THEN [player EXCEPT !.points["Points"] = @ + a]
                    ELSE player

\* lab.outputs(&tick).0.split_off(a), added to the player's
\* Resource<ResearchPoint<T>> of the lab's technology T.
LabTakePoints(a) ==
    /\ recipe \in TechRecipeIds
    /\ handle = Output
    /\ SplitOff(1, a)
    /\ player' = IF SplitOffOk(machine, Output, 1, a)
                    THEN [player EXCEPT !.points[TechnologyOf(recipe)] = @ + a]
                    ELSE player

\* points.bundle::<AMOUNT>() on the player's Resource<ResearchPoint<K>>
PointsBundle(K, AMOUNT) ==
    /\ ~panicked
    /\ player.bundle = NoBundle
    /\ player' = IF Resource_bundle(player.points[K], AMOUNT).ok
                    THEN [player EXCEPT
                            !.points[K] = Resource_bundle(@, AMOUNT).self,
                            !.bundle = [kind |-> K, AMOUNT |-> AMOUNT]]
                    ELSE player
    /\ last' = [op |-> "points_bundle", kind |-> K, AMOUNT |-> AMOUNT,
                ok |-> Resource_bundle(player.points[K], AMOUNT).ok]
    /\ UNCHANGED << tick, recipe, machine, handle, panicked >>

\* Mutant: research points are one kind, whatever their technology.
ResearchTypeChecks_AnyKind(T, b) == b.AMOUNT = ResearchPointCost

\* The call T.research(b) compiles: b is a
\* Bundle<ResearchPoint<T>, { T::RESEARCH_POINT_COST }>.
ResearchTypeChecks(T, b) == b.kind = T /\ b.AMOUNT = ResearchPointCost

\* Technology::research(self, research_points): both are moved in, the
\* unlocked value comes out.
Research(T) ==
    /\ ~panicked
    /\ T \in player.technologies
    /\ ResearchTypeChecks(T, player.bundle)
    /\ player' = [player EXCEPT !.technologies = @ \ { T },
                                !.bundle = NoBundle,
                                !.researched[T] = @ + 1]
    /\ last' = [op |-> "research", technology |-> T, bundle |-> player.bundle]
    /\ UNCHANGED << tick, recipe, machine, handle, panicked >>

NotPlayer == << shadow, ONCE, calls, harness, resources, territory, twin, mark >>

NextResearch ==
    \/ \E T \in Technologies : LabBuild(T) /\ UNCHANGED << shadow, outside >>
    \/ \E T2 \in Technologies :
        LabChangeTechnology(T2) /\ UNCHANGED << shadow, outside >>
    \/ \E n \in 1..MaxAdvance :
        tick.tick + n <= MaxTick /\ AdvanceBy(n) /\ UNCHANGED << shadow, outside >>
    \/ \E side \in {Input, Output} : LabAccess(side) /\ UNCHANGED NotPlayer
    \/ \E a \in 1..MaxAmount :
        /\ Held(machine) + a <= MaxAmount
        /\ handle = Input
        /\ Add(1, a)
        /\ UNCHANGED << shadow, outside >>
    \/ \E a \in 1..MaxAmount : LabTakePoints(a) /\ UNCHANGED NotPlayer
    \/ \E K \in Technologies, AMOUNT \in 1..MaxAmount :
        PointsBundle(K, AMOUNT) /\ UNCHANGED NotPlayer
    \/ \E T \in Technologies : Research(T) /\ UNCHANGED NotPlayer

SpecResearch == Init /\ [][NextResearch]_vars

\* ------------------------------------------------------------ conservation
\* The resources of earlier play the player holds when the run starts.
StartingWallet ==
    [k \in Kinds |-> IF k = "Copper" THEN 2 ELSE IF k = "Iron" THEN 1 ELSE 0]

\* A one-slot territory of ore, the copper and iron of earlier play in the
\* player's hands, no machine yet. The player works the territory first and
\* the machine afterwards.
InitConservation ==
    /\ tick = TickStart
    /\ recipe = 0
    /\ machine = NoMachine
    /\ handle = "none"
    /\ panicked = FALSE
    /\ last = Did("start")
    /\ shadow = NoMachine
    /\ ONCE = "Incomplete"
    /\ calls = [c \in Calls |-> [pc |-> "idle", call_once_ran |-> FALSE]]
    /\ harness = [clocks |-> 0, mains |-> 0, init_tick |-> -1, main_tick |-> -1,
                  advanced |-> 0, reported |-> -1, status |-> "running"]
    /\ resources = << 0, 0 >>
    /\ player = [StartingPlayer EXCEPT !.wallet = StartingWallet]
    /\ twin = NoTwin
    /\ mark = NoMark
    /\ territory = TerritoryNew(tick.tick, 1)

\* The resource type of buffer i on one side of the machine.
KindOf(r, side, i) ==
    IF side = Input THEN Recipes[r].inputs[i].name ELSE Recipes[r].outputs[i].name

\* wallet.split_off(a), then handle.i.add(..): the types must agree.
MoveIn(i, a) ==
    /\ handle = Input
    /\ i \in DOMAIN machine.inputs
    /\ Resource_split_off(player.wallet[KindOf(recipe, Input, i)], a).ok
    /\ Add(i, a)
    /\ player' = [player EXCEPT !.wallet[KindOf(recipe, Input, i)] =
                        Resource_split_off(@, a).self]

\* handle.i.split_off(a) returns Ok, then wallet.add(..)
MoveOut(i, a) ==
    /\ handle # "none"
    /\ i \in DOMAIN Buffers(machine, handle)
    /\ SplitOffOk(machine, handle, i, a)
    /\ SplitOff(i, a)
    /\ player' = [player EXCEPT !.wallet[KindOf(recipe, handle, i)] = @ + a]

\* wallet += territory.resources(&tick).empty()
MoveOre ==
    /\ TerritoryEmpty
    /\ player' = IF panicked' THEN player
                 ELSE [player EXCEPT !.wallet[Ore] = @ + last'.ret]

\* wallet += territory.hand_mine::<AMOUNT>(&mut tick)
MoveHandMined(AMOUNT) ==
    /\ TerritoryHandMine(AMOUNT)
    /\ player' = IF panicked' THEN player
                 ELSE [player EXCEPT !.wallet[Ore] = @ + last'.ret.bundle.AMOUNT]

NotTerritoryNorPlayer ==
    << recipe, machine, handle, shadow, ONCE, calls, harness, resources,
       twin, mark >>

NotMachineNorPlayer ==
    << shadow, ONCE, calls, harness, resources, territory, twin, mark >>

NextConservation ==
    \/ \E r \in 1..2 : Build(r) /\ UNCHANGED << shadow, outside >>
    \/ \E r2 \in 1..2 : ChangeRecipe(r2) /\ UNCHANGED << shadow, outside >>
    \/ \E n \in 1..MaxAdvance :
        tick.tick + n <= MaxTick /\ AdvanceBy(n) /\ UNCHANGED << shadow, outside >>
    \/ \E side \in {Input, Output} : Access(side) /\ UNCHANGED << shadow, outside >>
    \/ \E i \in 1..2, a \in 1..MaxAmount :
        MoveIn(i, a) /\ UNCHANGED NotMachineNorPlayer
    \/ \E i \in 1..2, a \in 1..MaxAmount :
        MoveOut(i, a) /\ UNCHANGED NotMachineNorPlayer
    \/ recipe = 0 /\ TerritoryAddMiner /\ UNCHANGED NotTerritory
    \/ recipe = 0 /\ TerritoryTakeMiner /\ UNCHANGED NotTerritory
    \/ recipe = 0 /\ TerritoryResources /\ UNCHANGED NotTerritory
    \/ recipe = 0 /\ MoveOre /\ UNCHANGED NotTerritoryNorPlayer
    \/ \E AMOUNT \in 1..MaxAdvance :
        /\ recipe = 0
        /\ tick.tick + HandMineTicks(AMOUNT) <= MaxTick
        /\ MoveHandMined(AMOUNT)
        /\ UNCHANGED NotTerritoryNorPlayer

SpecConservation == InitConservation /\ [][NextConservation]_vars

\* ------------------------------------------------- quantities at full width
\* The u32 amounts the arithmetic is run on: 0, 1, 2, the last value of one
\* limb, 2^16, and the two values up to u32::MAX.
U32Values ==
    { U32(0), U32(1), U32(2), U32(LimbBase - 1), U32(LimbBase),
      << LimbBase - 2, LimbBase - 1 >>, << LimbBase - 1, LimbBase - 1 >> }

\* What a u32 `+`, `+=` or `*` leaves: the build with overflow checks panics
\* when the result does not fit, the build without them keeps the low 32 bits.
Arith(panic, value) == [panic |-> panic, value |-> value]

\* a + b on u32
add_u32(a, b, overflow_checks) ==
    IF Carry(a, b, Len(a) + 1) > 0 /\ overflow_checks
        THEN Arith(TRUE, a)
        ELSE Arith(FALSE, wrapping_add(a, b))

\* The low bits of a * n, n a small number.
RECURSIVE wrapping_mul(_, _)
wrapping_mul(a, n) ==
    IF n = 0 THEN [i \in 1..Len(a) |-> 0]
    ELSE wrapping_add(wrapping_mul(a, n - 1), a)

\* a * n does not fit the width of a.
RECURSIVE MulOverflows(_, _)
MulOverflows(a, n) ==
    /\ n > 0
    /\ \/ MulOverflows(a, n - 1)
       \/ Carry(wrapping_mul(a, n - 1), a, Len(a) + 1) > 0

\* a * n on u32
mul_u32(a, n, overflow_checks) ==
    IF MulOverflows(a, n) /\ overflow_checks
        THEN Arith(TRUE, a)
        ELSE Arith(FALSE, wrapping_mul(a, n))

\* u32::try_from(x).expect(..) / x.try_into().unwrap() of a u64: panics in
\* every build when the upper half is not zero.
try_from_u64(x) ==
    IF x[3] # 0 \/ x[4] # 0 THEN Arith(TRUE, << x[1], x[2] >>)
    ELSE Arith(FALSE, << x[1], x[2] >>)

\* The step of a quantity operation on resources[i]: a panic ends the
\* process and leaves the amount as it was.
Quantity(op, i, result, operands) ==
    /\ ~panicked
    /\ panicked' = result.panic
    /\ resources' = IF result.panic THEN resources
                    ELSE [resources EXCEPT ![i] = result.value]
    /\ last' = [op |-> op, place |-> i, before |-> resources[i],
                operands |-> operands]
    /\ UNCHANGED << tick, recipe, machine, handle, shadow, ONCE, calls,
                    harness, territory, player, twin, mark >>

\* Resource::add, Resource::add_bundle, += of a Resource or a Bundle:
\* self.amount += other
ResourceAddU32(i, other, overflow_checks) ==
    Quantity("add", i, add_u32(resources[i], other, overflow_checks),
             << other >>)

\* Resource::empty_into: other.amount += self.amount; self.amount = 0
ResourceEmptyIntoU32(i, j, overflow_checks) ==
    /\ ~panicked
    /\ i # j
    /\ panicked' = add_u32(resources[j], resources[i], overflow_checks).panic
    /\ resources' =
            IF panicked' THEN resources
            ELSE [resources EXCEPT
                    ![j] = add_u32(resources[j], resources[i], overflow_checks).value,
                    ![i] = U32(0)]
    /\ last' = [op |-> "empty_into", place |-> j, before |-> resources[j],
                operands |-> << resources[i] >>]
    /\ UNCHANGED << tick, recipe, machine, handle, shadow, ONCE, calls,
                    harness, territory, player, twin, mark >>

\* Machine::tick on one output buffer: *current += count * needed
OutputAddU32(i, count, needed, overflow_checks) ==
    Quantity("output", i,
             IF mul_u32(count, needed, overflow_checks).panic
                THEN Arith(TRUE, resources[i])
                ELSE add_u32(resources[i],
                             mul_u32(count, needed, overflow_checks).value,
                             overflow_checks),
             << count, needed >>)

\* Machine::tick, the time bound of the count:
\* (crafting_time / R::TIME).try_into().unwrap(), then the output line.
TimeBoundU32(i, cycles, needed, overflow_checks) ==
    Quantity("time_bound", i,
             IF try_from_u64(cycles).panic THEN Arith(TRUE, resources[i])
             ELSE IF mul_u32(try_from_u64(cycles).value, needed,
                             overflow_checks).panic
                THEN Arith(TRUE, resources[i])
                ELSE add_u32(resources[i],
                             mul_u32(try_from_u64(cycles).value, needed,
                                     overflow_checks).value,
                             overflow_checks),
             << cycles, needed >>)

\* Territory::tick: self.resources +=
\*     resource(u32::try_from(mining_tick_delta).expect(..) * self.miners)
MinedU32(i, mining_tick_delta, miners, overflow_checks) ==
    Quantity("mined", i,
             IF try_from_u64(mining_tick_delta).panic
                THEN Arith(TRUE, resources[i])
             ELSE IF mul_u32(try_from_u64(mining_tick_delta).value, miners,
                             overflow_checks).panic
                THEN Arith(TRUE, resources[i])
                ELSE add_u32(resources[i],
                             mul_u32(try_from_u64(mining_tick_delta).value,
                                     miners, overflow_checks).value,
                             overflow_checks),
             << mining_tick_delta, miners >>)

\* The u64 values a tick difference takes: the u32 values and 2^32.
Widen(a) == << a[1], a[2], 0, 0 >>
U64Deltas == { Widen(a) : a \in U32Values } \cup { << 0, 0, 1, 0 >> }

InitU32 ==
    /\ tick = TickStart
    /\ recipe = 0
    /\ machine = NoMachine
    /\ handle = "none"
    /\ panicked = FALSE
    /\ last = Did("start")
    /\ shadow = NoMachine
    /\ ONCE = "Incomplete"
    /\ calls = [c \in Calls |-> [pc |-> "idle", call_once_ran |-> FALSE]]
    /\ harness = [clocks |-> 0, mains |-> 0, init_tick |-> -1, main_tick |-> -1,
                  advanced |-> 0, reported |-> -1, status |-> "running"]
    /\ resources = << U32(0), U32(0) >>
    /\ player = StartingPlayer
    /\ twin = NoTwin
    /\ mark = NoMark
    /\ territory = NoTerritory

\* The operations are run on the amounts of U32Values.
InU32Values == \A i \in 1..2 : resources[i] \in U32Values

NextU32 ==
    \/ \E i \in 1..2, other \in U32Values, overflow_checks \in BOOLEAN :
        InU32Values /\ ResourceAddU32(i, other, overflow_checks)
    \/ \E i \in 1..2, j \in 1..2, overflow_checks \in BOOLEAN :
        InU32Values /\ ResourceEmptyIntoU32(i, j, overflow_checks)
    \/ \E i \in 1..2, count \in U32Values, needed \in 1..2,
           overflow_checks \in BOOLEAN :
        InU32Values /\ OutputAddU32(i, count, needed, overflow_checks)
    \/ \E i \in 1..2, cycles \in U64Deltas, needed \in 1..2,
           overflow_checks \in BOOLEAN :
        InU32Values /\ TimeBoundU32(i, cycles, needed, overflow_checks)
    \/ \E i \in 1..2, mining_tick_delta \in U64Deltas, miners \in 0..MaxMiners,
           overflow_checks \in BOOLEAN :
        InU32Values /\ MinedU32(i, mining_tick_delta, miners, overflow_checks)

SpecU32 == InitU32 /\ [][NextU32]_vars

\* ------------------------------------------------------- two runs, one log
\* Two runs of the same operations on two clocks, machines and territories;
\* only their calls of Tick::log differ.
InitLog ==
    /\ tick = TickStart
    /\ recipe = 0
    /\ machine = NoMachine
    /\ handle = "none"
    /\ panicked = FALSE
    /\ last = Did("start")
    /\ shadow = NoMachine
    /\ ONCE = "Incomplete"
    /\ calls = [c \in Calls |-> [pc |-> "idle", call_once_ran |-> FALSE]]
    /\ harness = [clocks |-> 0, mains |-> 0, init_tick |-> -1, main_tick |-> -1,
                  advanced |-> 0, reported |-> -1, status |-> "running"]
    /\ resources = << 0, 0 >>
    /\ player = StartingPlayer
    /\ territory = TerritoryNew(tick.tick, 1)
    /\ twin = [tick |-> TickStart, machine |-> NoMachine,
               territory |-> TerritoryNew(tick.tick, 1),
               panicked |-> FALSE, result |-> FALSE]
    /\ mark = NoMark

\* tick.log(log) in one run, tick.log(log2) in the other.
TwinLog(log, log2) ==
    /\ Log(log)
    /\ twin' = [twin EXCEPT !.tick = Tick_log(@, log2)]

TwinAdvance ==
    /\ Advance
    /\ twin' = [twin EXCEPT !.tick = Tick_advance_by(@, 1)]

TwinAdvanceBy(n) ==
    /\ AdvanceBy(n)
    /\ twin' = [twin EXCEPT !.tick = Tick_advance_by(@, n)]

TwinAdvanceToTick(target_tick) ==
    /\ AdvanceToTick(target_tick)
    /\ twin' = [twin EXCEPT !.tick = Tick_advance_to_tick(@, target_tick)]

TwinAdvanceUntil(condition, max_ticks) ==
    /\ AdvanceUntil(condition, max_ticks)
    /\ twin' = [twin EXCEPT
                    !.tick = Tick_advance_until(@, condition, max_ticks).self,
                    !.result =
                        Tick_advance_until(twin.tick, condition, max_ticks).result]

TwinBuild(r) ==
    /\ Build(r)
    /\ twin' = [twin EXCEPT !.machine = new_inner(r, twin.tick.tick)]

\* machine.inputs(&tick) / machine.outputs(&tick) in both runs.
TwinAccess(side) ==
    /\ Access(side)
    /\ twin' =
            IF TickAssertFails(twin.machine, twin.tick.tick)
               \/ TickUnwrapFails(twin.machine, recipe, twin.tick.tick)
            THEN [twin EXCEPT
                    !.machine = MachineTickPanic(@, recipe, twin.tick.tick),
                    !.panicked = TRUE]
            ELSE [twin EXCEPT !.machine = MachineTick(@, recipe, twin.tick.tick)]

\* territory.add_miner(&tick, miner) in both runs.
TwinAddMiner ==
    /\ TerritoryAddMiner
    /\ twin' =
            IF TerritoryAssertFails(twin.territory, twin.tick.tick)
            THEN [twin EXCEPT !.panicked = TRUE]
            ELSE [twin EXCEPT !.territory =
                    IF AddMinerFits(TerritoryTick(@, twin.tick.tick))
                        THEN [TerritoryTick(@, twin.tick.tick) EXCEPT !.miners = @ + 1]
                        ELSE TerritoryTick(@, twin.tick.tick)]

\* territory.resources(&tick) in both runs.
TwinResources ==
    /\ TerritoryResources
    /\ twin' =
            IF TerritoryAssertFails(twin.territory, twin.tick.tick)
            THEN [twin EXCEPT !.panicked = TRUE]
            ELSE [twin EXCEPT !.territory = TerritoryTick(@, twin.tick.tick)]

NotTwin ==
    << shadow, ONCE, calls, harness, resources, territory, player, mark >>
NotTwinNorTerritory ==
    << recipe, machine, handle, shadow, ONCE, calls, harness, resources, player,
       mark >>

NextLog ==
    \/ \E log \in BOOLEAN, log2 \in BOOLEAN :
        TwinLog(log, log2) /\ UNCHANGED NotTwin
    \/ tick.tick + 1 <= MaxTick /\ TwinAdvance /\ UNCHANGED NotTwin
    \/ \E n \in 1..MaxAdvance :
        tick.tick + n <= MaxTick /\ TwinAdvanceBy(n) /\ UNCHANGED NotTwin
    \/ \E target_tick \in 0..MaxTick :
        TwinAdvanceToTick(target_tick) /\ UNCHANGED NotTwin
    \/ \E from \in 0..MaxTick, max_ticks \in 0..MaxAdvance :
        /\ tick.tick + max_ticks <= MaxTick
        /\ TwinAdvanceUntil(from..MaxTick, max_ticks)
        /\ UNCHANGED NotTwin
    \/ TwinBuild(4) /\ UNCHANGED NotTwin
    \/ \E side \in {Input, Output} : TwinAccess(side) /\ UNCHANGED NotTwin
    \/ TwinAddMiner /\ UNCHANGED NotTwinNorTerritory
    \/ TwinResources /\ UNCHANGED NotTwinNorTerritory

SpecLog == InitLog /\ [][NextLog]_vars

\* ------------------------------------------------------------------ bundles
\* Bundle::amount
Bundle_amount(b) == b.AMOUNT

\* Mutant: the parts of a split need only fit into the bundle.
SplitTypeChecks_Fits(AMOUNT, AMOUNT1, AMOUNT2) == AMOUNT1 + AMOUNT2 <= AMOUNT

\* The bound of Bundle::split, decided when the call is compiled:
\* Assert<{ AMOUNT1 + AMOUNT2 == AMOUNT }>: IsTrue
SplitTypeChecks(AMOUNT, AMOUNT1, AMOUNT2) == AMOUNT1 + AMOUNT2 = AMOUNT

\* Bundle::split::<AMOUNT1, AMOUNT2>
Bundle_split(b, AMOUNT1, AMOUNT2) == << BundleNew(AMOUNT1), BundleNew(AMOUNT2) >>

\* Bundle + Bundle: a Bundle<Content, { AMOUNT_LHS + AMOUNT_RHS }>
Bundle_add(lhs, rhs) == BundleNew(lhs.AMOUNT + rhs.AMOUNT)

\* Bundle::to_resource and From<Bundle> for Resource: Resource::new(AMOUNT)
Bundle_to_resource(b) == b.AMOUNT

\* Resource::add_bundle: self.amount += bundle.amount()
Resource_add_bundle(x, b) == x + Bundle_amount(b)

\* Resource += Bundle: self.amount += AMOUNT
Resource_add_assign_bundle(x, b) == x + b.AMOUNT

\* The sequence s without its k-th element.
Without(s, k) == [n \in 1..(Len(s) - 1) |-> IF n < k THEN s[n] ELSE s[n + 1]]

\* The most bundles held at once.
MaxBundles == 3

BundleStep(op, bundles, res, taken, made) ==
    /\ ~panicked
    /\ player' = [player EXCEPT !.bundles = bundles]
    /\ resources' = res
    /\ last' = [op |-> op, taken |-> taken, made |-> made]
    /\ UNCHANGED << tick, recipe, machine, handle, panicked, shadow, ONCE,
                    calls, harness, territory, twin, mark >>

\* resources[i].bundle::<AMOUNT>()
BundleTake(i, AMOUNT) ==
    /\ Len(player.bundles) < MaxBundles
    /\ BundleStep("bundle",
            IF Resource_bundle(resources[i], AMOUNT).ok
                THEN Append(player.bundles, BundleNew(AMOUNT))
                ELSE player.bundles,
            [resources EXCEPT ![i] = Resource_bundle(@, AMOUNT).self],
            << >>,
            IF Resource_bundle(resources[i], AMOUNT).ok
                THEN << BundleNew(AMOUNT) >> ELSE << >>)

\* bundles[k].split::<AMOUNT1, AMOUNT2>()
BundleSplit(k, AMOUNT1, AMOUNT2) ==
    /\ k \in DOMAIN player.bundles
    /\ Len(player.bundles) < MaxBundles
    /\ SplitTypeChecks(player.bundles[k].AMOUNT, AMOUNT1, AMOUNT2)
    /\ BundleStep("split",
            Without(player.bundles, k)
                \o Bundle_split(player.bundles[k], AMOUNT1, AMOUNT2),
            resources, << player.bundles[k] >>,
            Bundle_split(player.bundles[k], AMOUNT1, AMOUNT2))

\* bundles[k] + bundles[l]
BundleAdd(k, l) ==
    /\ k \in DOMAIN player.bundles
    /\ l \in DOMAIN player.bundles
    /\ k < l
    /\ BundleStep("add",
            Append(Without(Without(player.bundles, l), k),
                   Bundle_add(player.bundles[k], player.bundles[l])),
            resources, << player.bundles[k], player.bundles[l] >>,
            << Bundle_add(player.bundles[k], player.bundles[l]) >>)

\* The ways a bundle goes into resources[i]: resources[i] += b.to_resource(),
\* += Resource::from(b), .add_bundle(b), += b.
Conversions == { "to_resource", "from", "add_bundle", "add_assign" }

BundleConvert(k, i, how) ==
    /\ k \in DOMAIN player.bundles
    /\ BundleStep(how, Without(player.bundles, k),
            [resources EXCEPT ![i] =
                IF how \in { "to_resource", "from" }
                    THEN @ + Bundle_to_resource(player.bundles[k])
                ELSE IF how = "add_bundle"
                    THEN Resource_add_bundle(@, player.bundles[k])
                ELSE Resource_add_assign_bundle(@, player.bundles[k])],
            << player.bundles[k] >>, << >>)

\* The player starts with MaxAmount units in the first of two resources.
InitBundle ==
    /\ tick = TickStart
    /\ recipe = 0
    /\ machine = NoMachine
    /\ handle = "none"
    /\ panicked = FALSE
    /\ last = Did("start")
    /\ shadow = NoMachine
    /\ ONCE = "Incomplete"
    /\ calls = [c \in Calls |-> [pc |-> "idle", call_once_ran |-> FALSE]]
    /\ harness = [clocks |-> 0, mains |-> 0, init_tick |-> -1, main_tick |-> -1,
                  advanced |-> 0, reported |-> -1, status |-> "running"]
    /\ resources = << MaxAmount, 0 >>
    /\ player = StartingPlayer
    /\ territory = NoTerritory
    /\ twin = NoTwin
    /\ mark = NoMark

NextBundle ==
    \/ \E i \in 1..2, AMOUNT \in 0..MaxAmount : BundleTake(i, AMOUNT)
    \/ \E k \in 1..MaxBundles, AMOUNT1 \in 0..MaxAmount, AMOUNT2 \in 0..MaxAmount :
        BundleSplit(k, AMOUNT1, AMOUNT2)
    \/ \E k \in 1..MaxBundles, l \in 1..MaxBundles : BundleAdd(k, l)
    \/ \E k \in 1..MaxBundles, i \in 1..2, how \in Conversions :
        BundleConvert(k, i, how)

SpecBundle == InitBundle /\ [][NextBundle]_vars

\* ------------------------------------------------------ waiting for outputs
\* tick.advance_until(|tick| machine.outputs(tick).j.amount() >= amount,
\* max_ticks) is entered: start_tick is taken.
WaitEnter(j, amount, max_ticks) ==
    /\ ~panicked
    /\ recipe # 0
    /\ j \in DOMAIN machine.outputs
    /\ last' = [op |-> "waiting", j |-> j, amount |-> amount,
                max_ticks |-> max_ticks, start_tick |-> tick.tick]
    /\ handle' = "none"
    /\ UNCHANGED << tick, recipe, machine, panicked >>

\* One turn of its loop: the closure syncs the machine and reads the buffer;
\* then advance(), or the return of self.tick - start_tick < max_ticks.
WaitTurn ==
    /\ ~panicked
    /\ last.op = "waiting"
    /\ IF TickAssertFails(machine, tick.tick)
          \/ TickUnwrapFails(machine, recipe, tick.tick)
       THEN /\ panicked' = TRUE
            /\ machine' = MachineTickPanic(machine, recipe, tick.tick)
            /\ last' = Did("panic")
            /\ UNCHANGED tick
       ELSE /\ machine' = MachineTick(machine, recipe, tick.tick)
            /\ IF machine'.outputs[last.j] < last.amount
                  /\ tick.tick - last.start_tick < last.max_ticks
               THEN /\ tick.tick + 1 <= MaxTick
                    /\ tick' = Tick_advance_by(tick, 1)
                    /\ UNCHANGED last
               ELSE /\ last' = [op |-> "advance_until_output", j |-> last.j,
                                amount |-> last.amount,
                                max_ticks |-> last.max_ticks,
                                start_tick |-> last.start_tick,
                                result |-> UntilResult(tick.tick, last.start_tick,
                                                       last.max_ticks)]
                    /\ UNCHANGED tick
            /\ UNCHANGED panicked
    /\ UNCHANGED << recipe, handle >>

\* The tick production is measured from: the machine as it stands now.
Mark ==
    /\ ~panicked
    /\ recipe # 0
    /\ ~mark.set
    /\ mark' = [set |-> TRUE, tick |-> tick.tick, machine |-> machine,
                extracted |-> FALSE]
    /\ UNCHANGED << tick, recipe, machine, handle, panicked, last >>

\* handle.i.split_off(a), noted when it takes something out after the mark.
Extract(i, a) ==
    /\ SplitOff(i, a)
    /\ mark' = IF mark.set /\ SplitOffOk(machine, handle, i, a)
                 THEN [mark EXCEPT !.extracted = TRUE] ELSE mark

NotMark == << shadow, ONCE, calls, harness, resources, territory, player, twin >>

\* The recipes with a cycle time above 0.
TimedRecipeIds == { r \in RecipeIds : Recipes[r].TIME > 0 }

\* The caller is inside advance_until, or has taken something out after the
\* mark: the run is followed no further.
Waiting == last.op = "waiting" \/ mark.extracted

NextResponse ==
    \/ \E r \in TimedRecipeIds :
        ~Waiting /\ Build(r) /\ UNCHANGED << shadow, outside >>
    \/ \E n \in 1..MaxAdvance :
        /\ ~Waiting
        /\ tick.tick + n <= MaxTick
        /\ AdvanceBy(n)
        /\ UNCHANGED << shadow, outside >>
    \/ \E side \in {Input, Output} :
        ~Waiting /\ Access(side) /\ UNCHANGED << shadow, outside >>
    \/ \E i \in 1..2, a \in 1..MaxAmount :
        /\ ~Waiting
        /\ ~mark.set
        /\ Held(machine) + a <= MaxAmount
        /\ Add(i, a)
        /\ UNCHANGED << shadow, outside >>
    \/ \E i \in 1..2 :
        ~Waiting /\ mark.set /\ Extract(i, 1) /\ UNCHANGED NotMark
    \/ ~Waiting /\ Mark /\ UNCHANGED NotMark
    \/ \E amount \in 1..MaxAmount, max_ticks \in 1..MaxTick :
        /\ ~Waiting
        /\ mark.set
        /\ WaitEnter(1, amount, max_ticks)
        /\ UNCHANGED << shadow, outside >>
    \/ ~mark.extracted /\ WaitTurn /\ UNCHANGED << shadow, outside >>

SpecResponse == Init /\ [][NextResponse]_vars

\* ------------------------------------------------------- cycle time zero
\* A machine of a recipe whose TIME is 0, filled, drawn on and synced.
NextZeroTime ==
    \/ \E r \in ZeroTimeRecipeIds : Build(r) /\ UNCHANGED << shadow, outside >>
    \/ \E n \in 1..MaxAdvance :
        tick.tick + n <= MaxTick /\ AdvanceBy(n) /\ UNCHANGED << shadow, outside >>
    \/ \E side \in {Input, Output} : Access(side) /\ UNCHANGED << shadow, outside >>
    \/ \E i \in 1..2, a \in 1..MaxAmount :
        Held(machine) + a <= MaxAmount /\ Add(i, a) /\ UNCHANGED << shadow, outside >>
    \/ \E i \in 1..2, a \in 1..MaxAmount :
        SplitOff(i, a) /\ UNCHANGED << shadow, outside >>

SpecZeroTime == Init /\ [][NextZeroTime]_vars

\* ------------------------------------------------- syncs between two ticks

\* The start of an interval: a tick the territory is synced at, with the ore
\* it holds then. `changed` notes a change of the miner count since, and
\* `syncs` the ticks of the syncs since.
MarkTerritory ==
    /\ ~panicked
    /\ ~mark.set
    /\ territory.tick = tick.tick
    /\ mark' = [set |-> TRUE, tick |-> tick.tick, machine |-> NoMachine,
                extracted |-> FALSE, resources |-> territory.resources,
                changed |-> FALSE, syncs |-> {}]
    /\ UNCHANGED << tick, recipe, machine, handle, panicked, last, territory >>

\* One access to the territory, noted when it comes after the start.
Batched ==
    mark' = IF mark.set /\ ~panicked'
              THEN [mark EXCEPT
                        !.syncs = @ \cup {tick.tick},
                        !.changed = @ \/ territory'.miners # territory.miners]
              ELSE mark

NotTerritoryNorMark ==
    << recipe, machine, handle, shadow, ONCE, calls, harness, resources,
       player, twin >>

\* The accesses to a territory at every placement between two ticks; the
\* resources are taken out before the start of the interval only.
NextBatching ==
    \/ \E n \in 1..MaxAdvance :
        tick.tick + n <= MaxTick /\ AdvanceBy(n) /\ UNCHANGED << shadow, outside >>
    \/ \E v \in 0..MaxTick : SetTick(v) /\ UNCHANGED << shadow, outside >>
    \/ MarkTerritory /\ UNCHANGED NotMark
    \/ TerritoryAddMiner /\ Batched /\ UNCHANGED NotTerritoryNorMark
    \/ TerritoryTakeMiner /\ Batched /\ UNCHANGED NotTerritoryNorMark
    \/ TerritoryResources /\ Batched /\ UNCHANGED NotTerritoryNorMark
    \/ ~mark.set /\ TerritoryEmpty /\ UNCHANGED NotTerritory
    \/ \E AMOUNT \in 1..MaxAdvance :
        /\ tick.tick + AMOUNT * MINING_TICK_LENGTH <= MaxTick
        /\ TerritoryHandMine(AMOUNT)
        /\ Batched
        /\ UNCHANGED NotTerritoryNorMark

SpecBatching == InitTerritory /\ [][NextBatching]_vars

\* ---------------------------------------------- a change of the miner count

\* What is known of the last change of the miner count: its tick, the counts
\* before and after it, the ore before and after it, the tick of the access
\* before it, and the ore taken out of the territory since.
Noted ==
    mark' =
        IF panicked' THEN mark
        ELSE IF territory'.miners # territory.miners
            THEN [set |-> TRUE, tick |-> tick.tick, machine |-> NoMachine,
                  extracted |-> FALSE,
                  since |-> territory.tick, before |-> territory.resources,
                  old |-> territory.miners, new |-> territory'.miners,
                  resources |-> territory'.resources, taken |-> 0]
        ELSE IF mark.set /\ last'.op = "resources_empty"
            THEN [mark EXCEPT !.taken = @ + last'.ret]
        ELSE mark

NextMinerChange ==
    \/ \E n \in 1..MaxAdvance :
        tick.tick + n <= MaxTick /\ AdvanceBy(n) /\ UNCHANGED << shadow, outside >>
    \/ \E v \in 0..MaxTick : SetTick(v) /\ UNCHANGED << shadow, outside >>
    \/ TerritoryAddMiner /\ Noted /\ UNCHANGED NotTerritoryNorMark
    \/ TerritoryTakeMiner /\ Noted /\ UNCHANGED NotTerritoryNorMark
    \/ TerritoryResources /\ Noted /\ UNCHANGED NotTerritoryNorMark
    \/ TerritoryEmpty /\ Noted /\ UNCHANGED NotTerritoryNorMark
    \/ \E AMOUNT \in 1..MaxAdvance :
        /\ tick.tick + AMOUNT * MINING_TICK_LENGTH <= MaxTick
        /\ TerritoryHandMine(AMOUNT)
        /\ Noted
        /\ UNCHANGED NotTerritoryNorMark

SpecMinerChange == InitTerritory /\ [][NextMinerChange]_vars

\* ------------------------------------------------ cycles since the recipe

\* The tick the machine got its recipe at, by Machine::new or by a
\* change_recipe that returned Ok, and the cycles its syncs have run since
\* (counted for the recipes with a cycle time above 0).
Rated ==
    mark' =
        IF last'.op \in {"new", "change_recipe_ok"}
            THEN [set |-> TRUE, tick |-> tick.tick, machine |-> NoMachine,
                  extracted |-> FALSE, cycles |-> 0,
                  changed |-> last'.op = "change_recipe_ok"]
        ELSE IF mark.set /\ last'.op = "sync" /\ Recipes[recipe].TIME > 0
            THEN [mark EXCEPT !.cycles = @ + last'.count]
        ELSE mark

\* Clock advances, syncs, insertions, extractions and recipe changes.
NextRate ==
    \/ \E r \in RecipeIds : Build(r) /\ Rated /\ UNCHANGED NotMark
    \/ \E n \in 1..MaxAdvance :
        tick.tick + n <= MaxTick /\ AdvanceBy(n) /\ UNCHANGED << shadow, outside >>
    \/ \E side \in {Input, Output} : Access(side) /\ Rated /\ UNCHANGED NotMark
    \/ \E i \in 1..2, a \in 1..MaxAmount :
        Held(machine) + a <= MaxAmount /\ Add(i, a) /\ UNCHANGED << shadow, outside >>
    \/ \E i \in 1..2, a \in 1..MaxAmount : SplitOff(i, a) /\ UNCHANGED << shadow, outside >>
    \/ \E i \in 1..2 : Empty(i) /\ UNCHANGED << shadow, outside >>
    \/ \E r2 \in RecipeIds : ChangeRecipe(r2) /\ Rated /\ UNCHANGED NotMark

SpecRate == Init /\ [][NextRate]_vars

\* ------------------------------------------------------ the per-tick Furnace
\* Option<u64>
None == [some |-> FALSE, v |-> 0]
Some(v) == [some |-> TRUE, v |-> v]

\* Furnace::build. The fields `became` and `waited` are history: the tick
\* the input last became enough for a cycle, and the ticks from there to the
\* completion of the last cycle (-1 before any cycle).
FurnaceBuild(t) ==
    [input_amount |-> 0, output_amount |-> 0, tick |-> t, start_time |-> None,
     became |-> 0, waited |-> -1]

\* The cycle in progress completes at tick t.
FurnaceCompletes(f, R, t) ==
    /\ f.start_time.some
    /\ t >= f.start_time.v + Recipes[R].TIME
    /\ f.input_amount >= Recipes[R].inputs[1].needed

\* The first `if` of one turn of the loop, at tick t.
FurnaceFinish(f, R, t) ==
    IF FurnaceCompletes(f, R, t)
        THEN [f EXCEPT !.tick = t,
                       !.start_time = None,
                       !.input_amount = @ - Recipes[R].inputs[1].needed,
                       !.output_amount = @ + Recipes[R].outputs[1].needed,
                       !.waited = t - f.became,
                       !.became = t]
        ELSE [f EXCEPT !.tick = t]

\* The second `if` of the turn: a cycle starts when none is in progress and
\* the input is enough.
FurnaceStart(f, R) ==
    IF ~f.start_time.some /\ f.input_amount >= Recipes[R].inputs[1].needed
        THEN [f EXCEPT !.start_time = Some(f.tick)]
        ELSE f

\* One turn of the loop of Furnace::tick.
FurnaceTurn(f, R) == FurnaceStart(FurnaceFinish(f, R, f.tick + 1), R)

\* Furnace::tick: while self.tick < tick.cur() { ... }
RECURSIVE FurnaceTick(_, _, _)
FurnaceTick(f, R, cur) ==
    IF f.tick < cur THEN FurnaceTick(FurnaceTurn(f, R), R, cur) ELSE f

\* What one call on the furnace and the same call on the machine report: the
\* input and output amounts each holds after it.
Reports(op, f, m) ==
    [op |-> op,
     furnace |-> << f.input_amount, f.output_amount >>,
     machine |-> << m.inputs[1], m.outputs[1] >>]

\* The operations of the furnace, each with the same operation on a Machine
\* of the same recipe: both sync first.
Synced2(f) == FurnaceTick(f, recipe, tick.tick)
SyncedMachine == MachineTick(machine, recipe, tick.tick)

FurnaceFrame == UNCHANGED << tick, recipe, handle, panicked >>

\* Furnace::build and Machine::new, at the same tick.
PairBuild ==
    /\ ~panicked
    /\ recipe = 0
    /\ recipe' = IronSmelting
    /\ shadow' = FurnaceBuild(tick.tick)
    /\ machine' = new_inner(IronSmelting, tick.tick)
    /\ last' = Reports("build", shadow', machine')
    /\ UNCHANGED << tick, handle, panicked >>

\* Tick::next
TickNext ==
    /\ ~panicked
    /\ tick' = [tick EXCEPT !.tick = @ + 1]
    /\ last' = [op |-> "next"]
    /\ UNCHANGED << recipe, machine, handle, panicked, shadow >>

\* Furnace::cur_input / cur_output; machine.inputs(&tick).0.amount()
PairCur ==
    /\ ~panicked /\ recipe # 0
    /\ shadow' = Synced2(shadow)
    /\ machine' = SyncedMachine
    /\ last' = Reports("cur", shadow', machine')
    /\ FurnaceFrame

\* Furnace::add_input; machine.inputs(&tick).0.add(ore)
PairAddInput(a) ==
    /\ ~panicked /\ recipe # 0
    /\ shadow' = [Synced2(shadow) EXCEPT
            !.input_amount = @ + a,
            !.became =
                IF /\ Synced2(shadow).input_amount < Recipes[recipe].inputs[1].needed
                   /\ Synced2(shadow).input_amount + a >= Recipes[recipe].inputs[1].needed
                    THEN tick.tick ELSE @]
    /\ machine' = [SyncedMachine EXCEPT !.inputs[1] = @ + a]
    /\ last' = Reports("add_input", shadow', machine')
    /\ FurnaceFrame

\* Furnace::take_input; machine.inputs(&tick).0.split_off(amount)
PairTakeInput(a) ==
    /\ ~panicked /\ recipe # 0
    /\ shadow' = IF Synced2(shadow).input_amount >= a
                    THEN [Synced2(shadow) EXCEPT !.input_amount = @ - a]
                    ELSE Synced2(shadow)
    /\ machine' = IF SyncedMachine.inputs[1] >= a
                    THEN [SyncedMachine EXCEPT !.inputs[1] = @ - a]
                    ELSE SyncedMachine
    /\ last' = Reports("take_input", shadow', machine')
    /\ FurnaceFrame

\* Furnace::empty_input; machine.inputs(&tick).0.empty()
PairEmptyInput ==
    /\ ~panicked /\ recipe # 0
    /\ shadow' = [Synced2(shadow) EXCEPT !.input_amount = 0]
    /\ machine' = [SyncedMachine EXCEPT !.inputs[1] = 0]
    /\ last' = Reports("empty_input", shadow', machine')
    /\ FurnaceFrame

\* Furnace::take_output; machine.outputs(&tick).0.split_off(amount)
PairTakeOutput(a) ==
    /\ ~panicked /\ recipe # 0
    /\ shadow' = IF Synced2(shadow).output_amount >= a
                    THEN [Synced2(shadow) EXCEPT !.output_amount = @ - a]
                    ELSE Synced2(shadow)
    /\ machine' = IF SyncedMachine.outputs[1] >= a
                    THEN [SyncedMachine EXCEPT !.outputs[1] = @ - a]
                    ELSE SyncedMachine
    /\ last' = Reports("take_output", shadow', machine')
    /\ FurnaceFrame

\* Furnace::empty_output; machine.outputs(&tick).0.empty()
PairEmptyOutput ==
    /\ ~panicked /\ recipe # 0
    /\ shadow' = [Synced2(shadow) EXCEPT !.output_amount = 0]
    /\ machine' = [SyncedMachine EXCEPT !.outputs[1] = 0]
    /\ last' = Reports("empty_output", shadow', machine')
    /\ FurnaceFrame

\* The calls that report amounts.
PairOps ==
    { "build", "cur", "add_input", "take_input", "empty_input", "take_output",
      "empty_output" }

NextFurnace ==
    \/ PairBuild /\ UNCHANGED outside
    \/ tick.tick < MaxTick /\ TickNext /\ UNCHANGED outside
    \/ PairCur /\ UNCHANGED outside
    \/ \E a \in 1..MaxAmount :
        /\ recipe # 0
        /\ shadow.input_amount + shadow.output_amount + a <= MaxAmount
        /\ Held(machine) + a <= MaxAmount
        /\ PairAddInput(a)
        /\ UNCHANGED outside
    \/ \E a \in 1..MaxAmount : PairTakeInput(a) /\ UNCHANGED outside
    \/ PairEmptyInput /\ UNCHANGED outside
    \/ \E a \in 1..MaxAmount : PairTakeOutput(a) /\ UNCHANGED outside
    \/ PairEmptyOutput /\ UNCHANGED outside

SpecFurnace == Init /\ [][NextFurnace]_vars

\* ================================================================== claims
Needed(r, i) == Recipes[r].inputs[i].needed
Yield(r, j) == Recipes[r].outputs[j].needed

\* Some input of machine m holds less than one cycle needs.
Starved(m, r) == \E i \in 1..Len(m.inputs) : m.inputs[i] < Needed(r, i)

\* The step is a sync of the machine that returned.
IsSync == last'.op = "sync"

\* C1: batching equivalence. Whenever the machine, synced lazily in one batch
\* per access, is synced to the clock's tick, its inputs, outputs, carried
\* time and tick equal those of the machine that went through the same
\* operations and was also synced after every single tick.
BatchingEquivalence ==
    (recipe # 0 /\ ~panicked /\ machine.tick = tick.tick) => machine = shadow

\* A batched sync over 2 or more ticks that ran 2 or more cycles.
BatchingEquivalenceWitness ==
    /\ last.op = "sync" /\ last.delta >= 2 /\ last.count >= 2
    /\ machine = shadow

\* C2: conservation. Every sync has one cycle count c >= 0 by which every
\* input falls by c * its per-cycle amount and every output rises by c * its
\* per-cycle amount; and after every step no buffer amount is negative.
Conservation ==
    [][ /\ IsSync =>
            \E c \in 0..(MaxAmount + MaxTick) :
                /\ \A i \in 1..Len(machine.inputs) :
                    machine'.inputs[i] = machine.inputs[i] - c * Needed(recipe, i)
                /\ \A j \in 1..Len(machine.outputs) :
                    machine'.outputs[j] = machine.outputs[j] + c * Yield(recipe, j)
        /\ \A i \in 1..Len(machine'.inputs) : machine'.inputs[i] >= 0
        /\ \A j \in 1..Len(machine'.outputs) : machine'.outputs[j] >= 0
      ]_vars

\* A sync that ran cycles of a recipe whose input takes 2 units per cycle and
\* that has two outputs.
ConservationWitness ==
    /\ last.op = "sync" /\ last.count >= 1 /\ recipe = 3
    /\ machine.outputs[1] >= 1 /\ machine.outputs[2] >= 1

\* The largest number of whole cycles that the carried time plus the elapsed
\* ticks, and every input buffer, can pay for (cycle time > 0).
ExpectedCycles(m, r, cur) ==
    LET carried == m.crafting_time + (cur - m.tick)
        Fits(c) == /\ c * Recipes[r].TIME <= carried
                   /\ \A i \in 1..Len(m.inputs) : c * Needed(r, i) <= m.inputs[i]
    IN  CHOOSE c \in 0..carried : Fits(c) /\ ~Fits(c + 1)

\* C3: cycle count. A sync at tick t of a machine with cycle time T > 0 runs
\* min(floor((carried + t - last_tick) / T), min over inputs of
\* floor(input / amount)) cycles. The recipe {T = 10, 2 A -> 1 B}, holding
\* 20 A at tick 0, synced at tick 100 holds 0 A and 10 B; holding 3 A it
\* holds 1 A, 1 B and carried time 0.
CycleCount ==
    [][ /\ (IsSync /\ Recipes[recipe].TIME > 0) =>
            /\ last'.count = ExpectedCycles(machine, recipe, tick.tick)
            /\ \A i \in 1..Len(machine.inputs) :
                machine'.inputs[i] = machine.inputs[i]
                    - ExpectedCycles(machine, recipe, tick.tick) * Needed(recipe, i)
            /\ \A j \in 1..Len(machine.outputs) :
                machine'.outputs[j] = machine.outputs[j]
                    + ExpectedCycles(machine, recipe, tick.tick) * Yield(recipe, j)
        /\ (/\ IsSync /\ recipe = ScenarioRecipe /\ tick.tick = 100
            /\ machine = [inputs |-> << 20 >>, outputs |-> << 0 >>,
                          tick |-> 0, crafting_time |-> 0]) =>
            machine' = [inputs |-> << 0 >>, outputs |-> << 10 >>,
                        tick |-> 100, crafting_time |-> 0]
        /\ (/\ IsSync /\ recipe = ScenarioRecipe /\ tick.tick = 100
            /\ machine = [inputs |-> << 3 >>, outputs |-> << 0 >>,
                          tick |-> 0, crafting_time |-> 0]) =>
            machine' = [inputs |-> << 1 >>, outputs |-> << 1 >>,
                        tick |-> 100, crafting_time |-> 0]
      ]_vars

\* The scenario machine after its sync at tick 100 over 100 ticks: 10 cycles.
CycleCountWitness ==
    /\ last.op = "sync" /\ recipe = ScenarioRecipe
    /\ last.delta = 100 /\ last.count = 10
    /\ machine.inputs = << 0 >> /\ machine.outputs = << 10 >>

\* C4: forfeiture. After every sync, if some input buffer holds less than its
\* per-cycle amount, the carried time is 0.
Forfeiture ==
    (last.op = "sync" /\ Starved(machine, recipe)) => machine.crafting_time = 0

\* A sync that found carried time banked by an earlier sync and an input
\* below its per-cycle amount, and discarded all of it.
ForfeitureWitness ==
    /\ last.op = "sync" /\ last.banked > 0 /\ last.count = 0
    /\ Starved(machine, recipe)
    /\ machine.crafting_time = 0

\* The operations on a buffer, made through a handle.
HandleOps == {"add", "split_off", "split_off_err", "empty", "amount"}

\* C5: every read or mutation of a buffer through a handle acts on a machine
\* whose last-synced tick is not lower than the clock's tick.
HandleActsOnSyncedState ==
    last.op \in HandleOps => ~(machine.tick < tick.tick)

\* C6: idempotence. A sync that directly follows a sync, at the same tick and
\* with nothing done in between, runs 0 cycles and leaves the machine as it is.
SyncIdempotent ==
    [][ (last.op = "sync" /\ IsSync) => (last'.count = 0 /\ machine' = machine) ]_vars

\* A second sync in a row, of a machine that ran cycles and carries time.
SyncIdempotentWitness ==
    /\ last.op = "sync" /\ last.resync
    /\ machine.crafting_time > 0
    /\ \E j \in 1..Len(machine.outputs) : machine.outputs[j] > 0

\* C7: monotonicity. A sync with a tick lower than the machine's last-synced
\* tick panics and leaves the machine as it was; the machine's last-synced
\* tick never decreases.
MachineTickMonotonic ==
    [][ /\ (tick.tick < machine.tick /\ last'.op \in {"sync", "panic"}) =>
            (last'.op = "panic" /\ panicked' /\ machine' = machine)
        /\ machine'.tick >= machine.tick
      ]_vars

\* The sync of a machine that ran cycles was rejected: the clock's tick is
\* lower than the machine's.
MachineTickMonotonicWitness ==
    /\ panicked /\ last.op = "panic"
    /\ tick.tick < machine.tick
    /\ \E j \in 1..Len(machine.outputs) : machine.outputs[j] > 0

\* Every buffer of the machine holds exactly zero.
AllZero(m) ==
    /\ \A i \in 1..Len(m.inputs) : m.inputs[i] = 0
    /\ \A j \in 1..Len(m.outputs) : m.outputs[j] = 0

IsChangeRecipe == last'.op \in {"change_recipe_ok", "change_recipe_err"}

ChangeRecipeFailureReport ==
    [][ last'.op = "change_recipe_err" =>
            /\ machine' = machine
            /\ IF \E i \in 1..Len(machine.inputs) : machine.inputs[i] > 0
               THEN \E i \in 1..Len(machine.inputs) :
                        /\ machine.inputs[i] > 0
                        /\ \A k \in 1..(i - 1) : machine.inputs[k] = 0
                        /\ last'.err = [resource_type |-> Recipes[recipe].inputs[i].name,
                                        amount |-> machine.inputs[i],
                                        location |-> Input]
               ELSE \E j \in 1..Len(machine.outputs) :
                        /\ machine.outputs[j] > 0
                        /\ \A k \in 1..(j - 1) : machine.outputs[k] = 0
                        /\ last'.err = [resource_type |-> Recipes[recipe].outputs[j].name,
                                        amount |-> machine.outputs[j],
                                        location |-> Output]
      ]_vars

\* A failed change of a machine with empty inputs and 5 units of output.
ChangeRecipeFailureReportWitness ==
    /\ last.op = "change_recipe_err"
    /\ \A i \in 1..Len(machine.inputs) : machine.inputs[i] = 0
    /\ last.err = [resource_type |-> "CopperWire", amount |-> 5, location |-> Output]

FirstOffset(start_tick, condition, max_ticks) ==
    Min({ k \in 0..max_ticks : start_tick + k \in condition } \cup { max_ticks })

\* C11: advance_until returns true exactly when the condition holds at the
\* tick where it stopped, for every budget (0 included) and every condition.
AdvanceUntilResult ==
    last.op = "advance_until" => (last.result <=> tick.tick \in last.condition)

\* C12: advance_until advances by single ticks, by no more than max_ticks in
\* all, and stops at start + min(k, max_ticks), k the smallest offset at which
\* the condition holds; it does not advance when the condition holds at the call.
AdvanceUntilStop ==
    last.op = "advance_until" =>
        /\ tick.tick =
            last.start_tick
                + FirstOffset(last.start_tick, last.condition, last.max_ticks)
        /\ last.advances = tick.tick - last.start_tick
        /\ last.advances <= last.max_ticks
        /\ (last.start_tick \in last.condition => tick.tick = last.start_tick)

\* C12 witness: the condition first holds after some advances, within the budget.
AdvanceUntilStopWitness ==
    /\ last.op = "advance_until"
    /\ last.advances > 0
    /\ last.advances < last.max_ticks
    /\ tick.tick \in last.condition

\* C14: the tick starts at 0 and no operation on the clock lowers it;
\* advance_to_tick leaves it alone for a target at or below it and sets it to
\* the target otherwise.
ClockMonotonic ==
    [][/\ tick'.tick >= tick.tick
       /\ last'.op = "advance_to_tick" =>
            tick'.tick = IF last'.target_tick <= tick.tick
                            THEN tick.tick ELSE last'.target_tick]_vars

\* a <= b for two u64, decided from the most significant limb down.
RECURSIVE LeqFrom(_, _, _)
LeqFrom(a, b, i) ==
    IF i = 0 THEN TRUE
    ELSE IF a[i] # b[i] THEN a[i] < b[i]
    ELSE LeqFrom(a, b, i - 1)

U64Leq(a, b) == LeqFrom(a, b, Len(a))

\* u64::MAX - a: no limb borrows.
U64Room(a) == [i \in 1..Len(a) |-> U64_MAX[i] - a[i]]

\* The borrow into limb i of a - b.
RECURSIVE Borrow(_, _, _)
Borrow(a, b, i) ==
    IF i = 1 THEN 0
    ELSE IF a[i - 1] - b[i - 1] - Borrow(a, b, i - 1) < 0 THEN 1 ELSE 0

\* a - b, for a >= b.
U64Minus(a, b) ==
    [i \in 1..Len(a) |-> (a[i] - b[i] - Borrow(a, b, i) + LimbBase) % LimbBase]

\* C13: advance_by(n) sets the tick to exactly tick + n; when tick + n does
\* not fit in 64 bits the call is fatal and the tick is left as it was,
\* neither wrapped nor saturated.
AdvanceByExact ==
    [][last'.op = "advance_by" =>
        IF U64Leq(last'.ticks, U64Room(tick.tick))
            THEN /\ ~panicked'
                 /\ U64Leq(last'.ticks, tick'.tick)
                 /\ U64Minus(tick'.tick, last'.ticks) = tick.tick
            ELSE /\ panicked'
                 /\ tick'.tick = tick.tick]_vars

\* C13 witness: an advance_by from a tick above 0 that was refused.
AdvanceByExactWitness ==
    /\ last.op = "advance_by"
    /\ panicked
    /\ tick.tick # U64(0)
    /\ tick.tick # U64_MAX
    /\ last.ticks # U64_MAX

\* --------------------------------------------------------- claims on play()
\* The calls that got past the run-once guard.
Admitted == { c \in Calls : calls[c].pc \in {"start", "main", "exited"} }

\* C15: in every interleaving of the calls of play() at most one call makes
\* a clock and invokes the user function; every other call that gets to the
\* guard panics, having made no clock and invoked nothing.
RunOnce ==
    /\ Cardinality(Admitted) <= 1
    /\ harness.clocks <= 1
    /\ harness.mains <= 1
    /\ \A c \in Calls :
        /\ calls[c].pc = "panicked" => ~calls[c].call_once_ran
        /\ calls[c].pc = "start" => calls[c].call_once_ran
        /\ (calls[c].pc = "check" /\ Admitted # { }) => ~calls[c].call_once_ran

\* C15 witness: one call is inside the user function with its clock, another
\* one has panicked at the guard.
RunOnceWitness ==
    /\ harness.clocks = 1
    /\ \E c, d \in Calls : calls[c].pc = "main" /\ calls[d].pc = "panicked"

\* C16: play() invokes the user function once, with a clock at tick 0 and
\* starting resources made at tick 0, and on return reports the sum of the
\* tick advances of the run and exits with status 0.
PlayReport ==
    harness.status # "running" =>
        /\ harness.status = "exit(0)"
        /\ harness.mains = 1
        /\ harness.main_tick = 0
        /\ harness.init_tick = 0
        /\ harness.reported = harness.advanced

\* ------------------------------------------- claims on Resource and RecipeItem
ExtractOps ==
    {"Resource::split_off", "Resource::bundle",
     "RecipeItem::take", "RecipeItem::take_bundle"}

\* The amount held by the container an operation acted on, among the
\* free-standing resources res and the buffers of machine m.
Container(l, res, m) ==
    IF l.container = "resource" THEN res[l.place]
    ELSE Buffers(m, handle)[l.place]

SplitAndEmpty ==
    [][/\ last'.op = "Resource::split" =>
            IF last'.requested > resources[last'.place]
                THEN /\ ~last'.ret.ok
                     /\ last'.ret.original = resources[last'.place]
                ELSE /\ last'.ret.ok
                     /\ last'.ret.taken = last'.requested
                     /\ last'.ret.remainder + last'.ret.taken
                            = resources[last'.place]
       /\ last'.op = "Resource::empty" =>
            /\ resources'[last'.place] = 0
            /\ last'.ret.value = resources[last'.place]
       /\ last'.op = "Resource::empty_into" =>
            /\ resources'[last'.place] = 0
            /\ resources'[last'.ret.other_place]
                    = resources[last'.ret.other_place] + resources[last'.place]
            /\ resources'[1] + resources'[2] = resources[1] + resources[2]]_vars

\* C18 witness: a resource was emptied into another one that was not empty.
SplitAndEmptyWitness ==
    /\ last.op = "Resource::empty_into"
    /\ last.before > 0
    /\ last.ret.other_before > 0
    /\ resources[last.ret.other_place] = last.before + last.ret.other_before

\* ------------------------------------------------------ claims on Territory
TerritoryOps ==
    {"add_miner", "take_miner", "resources", "resources_empty", "hand_mine"}

\* C19, as amended: a territory sync adds (floor(current tick / cadence) -
\* floor(tick of the previous sync / cadence)) * miner count to the
\* accumulated ore, the miner count being the one before the access.
TerritoryMinedByCadence ==
    [][last'.op \in TerritoryOps =>
        /\ last'.mined =
            (tick.tick \div MINING_TICK_LENGTH
                - territory.tick \div MINING_TICK_LENGTH) * territory.miners
        /\ last'.op # "resources_empty" =>
            territory'.resources = territory.resources + last'.mined
        /\ territory'.tick = tick.tick]_vars

\* C19 witness: a sync one tick after the previous one, across a cadence
\* boundary, added ore.
TerritoryMinedByCadenceWitness ==
    /\ last.op \in TerritoryOps
    /\ last.elapsed = 1
    /\ last.miners > 0
    /\ last.mined = last.miners

\* C19: a territory sync adds floor(elapsed ticks / cadence) * miner count,
\* elapsed ticks being the ticks between the previous sync of the territory
\* and this one.
TerritoryMinedByElapsed ==
    (last.op \in TerritoryOps /\ last.elapsed >= 0) =>
        last.mined = (last.elapsed \div MINING_TICK_LENGTH) * last.miners

\* C20: add_miner on a territory whose miner count equals max_miners fails,
\* returning the miner and max_miners, and leaves the count as it was; below
\* capacity it succeeds and raises the count by exactly 1.
AddMiner ==
    [][last'.op = "add_miner" =>
        /\ territory'.max_miners = territory.max_miners
        /\ IF territory.miners = territory.max_miners
            THEN /\ last'.ret = [ok |-> FALSE,
                                 max_miners |-> territory.max_miners,
                                 miner |-> "Miner"]
                 /\ territory'.miners = territory.miners
            ELSE /\ territory.miners < territory.max_miners
                 /\ last'.ret.ok
                 /\ territory'.miners = territory.miners + 1]_vars

\* C20 witness: add_miner was refused by a territory that is full.
AddMinerWitness ==
    /\ last.op = "add_miner"
    /\ ~last.ret.ok
    /\ last.ret.max_miners = territory.miners
    /\ territory.miners = MaxMiners

\* C21. Hand mining AMOUNT units advances the clock by exactly AMOUNT times
\* the mining cadence and returns a bundle of exactly AMOUNT units; it leaves
\* the territory's miners alone and takes nothing out of its resources.
ExactDoubling(a) == wrapping_add(a, a) \o << Carry(a, a, Len(a) + 1) >>
Limbs3(n) == << n % LimbBase, (n \div LimbBase) % LimbBase,
                (n \div LimbBase) \div LimbBase >>
HandMine ==
    [][ /\ last'.op = "hand_mine" =>
            /\ tick'.tick = tick.tick + last'.ret.requested * MINING_TICK_LENGTH
            /\ last'.ret.bundle.AMOUNT = last'.ret.requested
            /\ territory'.miners = territory.miners
            /\ territory'.resources >= territory.resources
        /\ last'.op = "mine_iron" =>
            /\ Limbs3(tick'.tick - tick.tick) = ExactDoubling(last'.requested)
            /\ last'.bundle.AMOUNT = last'.requested
            /\ territory' = territory ]_vars
\* The part of C21 that Territory::hand_mine alone answers for.
HandMineOfTerritory ==
    [][ last'.op = "hand_mine" =>
            /\ tick'.tick = tick.tick + last'.ret.requested * MINING_TICK_LENGTH
            /\ last'.ret.bundle.AMOUNT = last'.ret.requested
            /\ territory'.miners = territory.miners
            /\ territory'.resources >= territory.resources ]_vars
HandMineWitness ==
    /\ last.op = "hand_mine" /\ last.ret.requested = 1 /\ last.miners = 1
    /\ last.mined > 0

\* C22. research() takes the technology away from the player together with a
\* bundle of exactly the technology's point cost of that technology's own
\* points: no technology is researched twice, and the points spent on a
\* technology were all made by labs set to that technology.
PointsHeld(T) ==
    player.points[T]
    + (IF player.bundle.kind = T THEN player.bundle.AMOUNT ELSE 0)
    + (IF recipe \in TechRecipeIds /\ TechnologyOf(recipe) = T
        THEN machine.outputs[1] ELSE 0)
InMachine(k) ==
    IF recipe = 0 THEN 0
    ELSE SumSeq([i \in 1..Len(machine.inputs) |->
                    IF KindOf(recipe, Input, i) = k THEN machine.inputs[i] ELSE 0])
         + SumSeq([j \in 1..Len(machine.outputs) |->
                    IF KindOf(recipe, Output, j) = k THEN machine.outputs[j] ELSE 0])
Total(k) ==
    player.wallet[k] + InMachine(k) + (IF k = Ore THEN territory.resources ELSE 0)
PerCycle(r, k) ==
    SumSeq([j \in 1..Len(Recipes[r].outputs) |->
                IF KindOf(r, Output, j) = k THEN Recipes[r].outputs[j].needed ELSE 0])
    - SumSeq([i \in 1..Len(Recipes[r].inputs) |->
                IF KindOf(r, Input, i) = k THEN Recipes[r].inputs[i].needed ELSE 0])
GlobalConservation ==
    [][ \A k \in Kinds :
          Total(k)' - Total(k) =
            IF last'.op = "sync" THEN last'.count * PerCycle(recipe, k)
            ELSE IF last'.op \in TerritoryOps /\ k = Ore
                THEN last'.mined
                     + (IF last'.op = "hand_mine" THEN last'.ret.requested ELSE 0)
            ELSE 0 ]_vars
GlobalConservationWitness ==
    /\ player.wallet["CopperWire"] = 4
    /\ player.wallet[Ore] > 1
    /\ last.op = "split_off"

\* C24. No quantity arithmetic wraps or saturates: a merge of resources, the
\* product and the addition of the machine's output line, the conversion of
\* the time-bounded count to 32 bits and the territory's product either end
\* the process or leave the exact mathematical result.
ExactResult(l) ==
    IF l.op \in {"add", "empty_into"}
        THEN wrapping_add(Widen(l.before), Widen(l.operands[1]))
    ELSE wrapping_add(Widen(l.before),
            wrapping_mul(IF Len(l.operands[1]) = 4 THEN l.operands[1]
                         ELSE Widen(l.operands[1]), l.operands[2]))
QuantityOps == {"add", "empty_into", "output", "time_bound", "mined"}
QuantityExact ==
    [][ last'.op \in QuantityOps =>
            \/ panicked'
            \/ Widen(resources'[last'.place]) = ExactResult(last') ]_vars

Amounts(bs) == SumSeq([n \in DOMAIN bs |-> Bundle_amount(bs[n])])
BundleAlgebra ==
    [][ /\ last'.op = "split" =>
            /\ Len(last'.made) = 2
            /\ Amounts(last'.made) = Bundle_amount(last'.taken[1])
            /\ resources' = resources
        /\ last'.op = "add" =>
            /\ Len(last'.made) = 1
            /\ Bundle_amount(last'.made[1]) = Amounts(last'.taken)
            /\ resources' = resources
        /\ last'.op \in Conversions =>
            /\ SumSeq(resources') = SumSeq(resources) + Bundle_amount(last'.taken[1])
            /\ \E i \in 1..2 :
                resources' = [resources EXCEPT ![i] = @ + Bundle_amount(last'.taken[1])]
        /\ last'.op \in Conversions \cup { "split", "add" } =>
            Amounts(player'.bundles) =
                Amounts(player.bundles) - Amounts(last'.taken) + Amounts(last'.made)
        /\ Amounts(player'.bundles) + SumSeq(resources') = MaxAmount ]_vars
BundleAlgebraWitness ==
    /\ last.op = "add_assign"
    /\ resources = << 1, 3 >>
    /\ Len(player.bundles) = 0

\* C27. A machine with cycle time T > 0 that holds, at tick t, the inputs of
\* m cycles, and from which nothing is taken afterwards, has at every sync at
\* a tick >= t + m*T at least m cycles' worth more in each output than at t;
\* an advance_until on `output j >= m * its per-cycle amount` started at t or
\* later with a budget above m*T returns true, and taking that amount out
\* then succeeds.
HoldsCycles(m, r, cycles) ==
    \A i \in 1..Len(m.inputs) : m.inputs[i] >= cycles * Needed(r, i)
ProductionResponse ==
    (mark.set /\ ~mark.extracted /\ ~panicked) =>
        \A cycles \in 0..MaxTick :
            HoldsCycles(mark.machine, recipe, cycles) =>
                /\ machine.tick >= mark.tick + cycles * Recipes[recipe].TIME =>
                    \A j \in 1..Len(machine.outputs) :
                        machine.outputs[j] >=
                            mark.machine.outputs[j] + cycles * Yield(recipe, j)
                /\ ( /\ last.op = "advance_until_output"
                     /\ last.start_tick >= mark.tick
                     /\ last.amount = cycles * Yield(recipe, last.j)
                     /\ last.max_ticks > cycles * Recipes[recipe].TIME ) =>
                        /\ last.result
                        /\ SplitOffOk(MachineTick(machine, recipe, tick.tick),
                                      Output, last.j, last.amount)
ProductionResponseWitness ==
    /\ mark.set /\ ~mark.extracted /\ ~panicked
    /\ recipe = 2 /\ HoldsCycles(mark.machine, recipe, 1)
    /\ mark.machine.outputs[1] = 0
    /\ last.op = "advance_until_output" /\ last.amount = 1
    /\ last.max_ticks = 4 /\ last.start_tick = mark.tick /\ last.result
    /\ tick.tick = mark.tick + 3

\* C28. A sync of a machine whose recipe has cycle time 0 returns, whatever
\* the recipe's shape and however many ticks have passed (none included); it
\* runs exactly min over the inputs of floor(input / per-cycle amount) cycles
\* and leaves some input below its per-cycle amount.
InputCycles(m, r) ==
    { m.inputs[i] \div Needed(r, i) : i \in 1..Len(m.inputs) }
ZeroTimeSync ==
    [][ ( /\ recipe \in ZeroTimeRecipeIds
          /\ last'.op \in { "sync", "panic" } ) =>
            /\ last'.op = "sync"
            /\ Len(machine.inputs) > 0 =>
                /\ last'.count = Min(InputCycles(machine, recipe))
                /\ Starved(machine', recipe) ]_vars
\* The part of C28 the code keeps: the same for the recipes that have an input.
ZeroTimeSyncWithInputs ==
    [][ ( /\ recipe \in ZeroTimeRecipeIds
          /\ Len(machine.inputs) > 0
          /\ last'.op \in { "sync", "panic" } ) =>
            /\ last'.op = "sync"
            /\ last'.count = Min(InputCycles(machine, recipe))
            /\ Starved(machine', recipe) ]_vars
ZeroTimeSyncWitness ==
    /\ recipe = 3 /\ last.op = "sync" /\ last.delta = 0 /\ last.count = 2

\* C29. No access to a territory (resources, add_miner, take_miner,
\* hand_mine) returns when the tick it is given is lower than the tick of the
\* territory's previous access, also when both lie in one cadence window.
TerritoryRejectsLowerTick ==
    [][ ~(last'.op \in TerritoryOps /\ tick.tick < territory.tick) ]_vars
\* The part of C29 the code keeps: a tick of an earlier cadence window.
TerritoryRejectsEarlierWindow ==
    [][ ~( /\ last'.op \in TerritoryOps
           /\ tick.tick \div MINING_TICK_LENGTH
                < territory.tick \div MINING_TICK_LENGTH ) ]_vars
TerritoryRejectsLowerTickWitness ==
    /\ ~panicked
    /\ last.op \in TerritoryOps
    /\ last.elapsed < 0

\* C30. With the miner count m unchanged from a sync at tick t1 to a sync at
\* tick t2, the ore added to the territory in between is
\* (floor(t2 / cadence) - floor(t1 / cadence)) * m, whatever the number and
\* the placement of the syncs in between.
BatchingIndependence ==
    ( /\ mark.set /\ ~mark.changed /\ ~panicked
      /\ territory.tick = tick.tick
      /\ mark.tick <= tick.tick )
        => territory.resources - mark.resources
            = ( tick.tick \div MINING_TICK_LENGTH
                - mark.tick \div MINING_TICK_LENGTH ) * territory.miners
BatchingIndependenceWitness ==
    /\ mark.set /\ ~mark.changed /\ ~panicked
    /\ mark.tick = 0
    /\ {1, 3} \subseteq mark.syncs
    /\ tick.tick = 4 /\ territory.tick = 4
    /\ territory.miners >= 1
    /\ territory.resources - mark.resources = 2 * territory.miners

\* C31. The miner count of a territory stays within 0..max_miners and
\* max_miners never changes; the count starts at 0, goes up by one with each
\* add_miner that returns Ok, down by one with each take_miner that returns a
\* miner, and is left alone by everything else, so it is the successful
\* add_miner calls minus the successful take_miner calls; take_miner on a
\* territory without miners returns None and leaves the count at 0.
MinerCountStep ==
    IF last'.op = "add_miner" /\ last'.ret.ok THEN 1
    ELSE IF last'.op = "take_miner" /\ last'.ret = "Some(Miner)" THEN -1
    ELSE 0
MinerCount ==
    [][ /\ territory.miners \in 0..territory.max_miners
        /\ territory'.miners \in 0..territory'.max_miners
        /\ territory'.max_miners = territory.max_miners
        /\ territory'.miners = territory.miners + MinerCountStep
        /\ (last'.op = "take_miner" /\ territory.miners = 0)
            => (last'.ret = "None" /\ territory'.miners = 0) ]_vars
MinerCountWitness ==
    /\ last.op = "take_miner" /\ last.ret = "None"
    /\ territory.miners = 0
    /\ territory.resources > 0

\* C32. A change of the miner count counts from the tick it is made at: the
\* add_miner or take_miner that makes it credits the cadence steps completed
\* since the access before it with the old count, and a later sync credits
\* the cadence steps completed after the change with the new count.
MinerChangeFromItsTick ==
    mark.set =>
        /\ mark.resources = mark.before
            + ( mark.tick \div MINING_TICK_LENGTH
                - mark.since \div MINING_TICK_LENGTH ) * mark.old
        /\ ( /\ ~panicked
             /\ territory.tick = tick.tick
             /\ mark.tick <= tick.tick )
            => territory.resources + mark.taken = mark.resources
                + ( tick.tick \div MINING_TICK_LENGTH
                    - mark.tick \div MINING_TICK_LENGTH ) * mark.new
MinerChangeFromItsTickWitness ==
    /\ mark.set /\ ~panicked
    /\ mark.old = 1 /\ mark.new = 2
    /\ mark.since = 0 /\ mark.tick = 2
    /\ tick.tick = 4 /\ territory.tick = 4
    /\ mark.taken = 0
    /\ territory.resources = 3

\* C33. A lab set to technology T makes one point of T's kind per completed
\* cycle of T's point recipe: the points of T ever taken out of labs, with
\* those still in a lab set to T, are the cycles labs set to T have completed,
\* so the points taken out never exceed those cycles; and T is researched
\* only after at least its point cost of such cycles.
LabExtracted(T) ==
    player.points[T]
    + (IF player.bundle.kind = T THEN player.bundle.AMOUNT ELSE 0)
    + player.researched[T] * ResearchPointCost
InLab(T) ==
    IF recipe \in TechRecipeIds /\ TechnologyOf(recipe) = T
        THEN machine.outputs[1] ELSE 0
LabPoints ==
    [][ \A T \in Technologies :
            /\ LabExtracted(T)' <= player'.produced[T]
            /\ LabExtracted(T)' + InLab(T)' = player'.produced[T]
            /\ player'.researched[T] > player.researched[T]
                => player.produced[T] >= ResearchPointCost ]_vars
LabPointsWitness ==
    /\ player.researched["Steel"] = 1
    /\ player.produced["Steel"] = ResearchPointCost
    /\ player.produced["Points"] > 0
    /\ InLab("Points") > 0

\* C34. A machine with cycle time T > 0 that was built, or given its recipe,
\* at tick t0 has completed at most floor((t - t0) / T) cycles by any later
\* tick t, whatever the clock advances, syncs, insertions and extractions.
RateBound ==
    (mark.set /\ recipe # 0 /\ Recipes[recipe].TIME > 0)
        => mark.cycles * Recipes[recipe].TIME <= tick.tick - mark.tick
\* The part of C34 the code keeps: machines as built, and recipes with an
\* input after a change.
RateBoundBuiltOrWithInputs ==
    ( /\ mark.set /\ recipe # 0 /\ Recipes[recipe].TIME > 0
      /\ (~mark.changed \/ Len(Recipes[recipe].inputs) > 0) )
        => mark.cycles * Recipes[recipe].TIME <= tick.tick - mark.tick
RateBoundWitness ==
    /\ mark.set /\ mark.changed /\ ~panicked
    /\ recipe = 4
    /\ mark.tick = MaxTick /\ tick.tick = MaxTick
    /\ mark.cycles = MaxTick \div Recipes[recipe].TIME

\* C35. Right after a sync of a machine with cycle time T > 0 the carried
\* time is below T, and it is 0 when some input is below its per-cycle
\* amount; it is 0 on construction and after a successful recipe change.
CarriedTimeBelowCycle ==
    /\ (last.op = "sync" /\ Recipes[recipe].TIME > 0) =>
            /\ machine.crafting_time >= 0
            /\ machine.crafting_time < Recipes[recipe].TIME
            /\ (\E i \in 1..Len(machine.inputs) :
                    machine.inputs[i] < Recipes[recipe].inputs[i].needed)
                => machine.crafting_time = 0
    /\ last.op \in {"new", "change_recipe_ok"} => machine.crafting_time = 0
CarriedTimeBelowCycleWitness ==
    /\ last.op = "sync" /\ last.count >= 1 /\ last.banked > 0
    /\ machine.crafting_time > 0
    /\ machine.crafting_time < Recipes[recipe].TIME

\* C36. In the per-tick Furnace, work in progress is forfeited when the input
\* drops below the per-cycle amount: no cycle completes fewer than TIME ticks
\* after the last tick at which the input became enough for it.
FurnaceForfeits ==
    (recipe # 0 /\ shadow.waited # -1) => shadow.waited >= Recipes[recipe].TIME
\* The cycles of a furnace whose input was never taken out in between wait
\* one tick more than TIME.
FurnaceForfeitsWitness ==
    /\ recipe # 0
    /\ shadow.waited = 1
    /\ shadow.output_amount = 1
    /\ last.op = "cur"

\* C37. A Machine and a Furnace built at the same tick with the same
\* single-input recipe, and given the same clock advances, insertions and
\* extractions, report the same input and output amounts at every access.
FurnaceAsMachine ==
    last.op \in PairOps => last.furnace = last.machine
FurnaceAsMachineWitness ==
    /\ last.op = "cur"
    /\ last.machine = << 0, 1 >>
    /\ last.furnace = << 1, 0 >>
    /\ tick.tick = FurnaceTime

====
